---- MODULE Spec2Model ----
(***************************************************************************)
(* Model of the Kleinanzeigen message-and-offer bot.                       *)
(*                                                                         *)
(* Several parts, each with its own specification:                         *)
(*   SpecSession  - the cookie store (src/core/session.py, src/auth.py and *)
(*                  the raw cookie load of src/bot_new.py); under          *)
(*                  SpecInterleaved a save runs statement by statement     *)
(*                  next to the loads of another process                   *)
(*   SpecResolver - the fallback selector resolvers                        *)
(*                  (src/utils/selectors.py, src/utils.py)                 *)
(*   Spec         - the workflow orchestrators (src/core/bot.py,           *)
(*                  src/bot.py) and the command line entry (cli.py)        *)
(*   SpecLog      - the log file of two logins that differ only in the     *)
(*                  password (setup_logging and safe_fill of src/utils.py) *)
(*   SpecNavigation - the calls of navigate_to_conversation                *)
(*                  (src/modules/navigation.py, src/bot_new.py)            *)
(*   SpecTermination - all of the above that loops, under weak fairness    *)
(*                  (the login poll of auth.py included)                   *)
(*   SpecRepeated - the fallback resolver called again on the same page    *)
(*   SpecDelay    - HumanBehavior.delay (src/stealth/human_behavior.py)    *)
(*   SpecType     - HumanBehavior.human_type                               *)
(*   SpecResult   - the result bookkeeping of execute_full_workflow        *)
(*   SpecListing  - send_message and the listing URL it navigates to       *)
(*   SpecRetry    - retry_with_backoff (src/utils.py)                      *)
(*                                                                         *)
(* Time is counted in ticks, TicksPerSecond ticks to the second, so that   *)
(* int(time.time()) is a real truncation.  A cookie is a record with the   *)
(* fields name and value and, optionally, expires; the domain and path of  *)
(* a cookie are carried along exactly like value and are not modelled.     *)
(***************************************************************************)
EXTENDS Integers, Sequences, FiniteSets, TLC

----------------------------------------------------------------------------
(* Bounds of the model *)

TicksPerSecond == 2
T0 == 1000000
MaxCookies == 3
MaxLive == 1
MaxClockSteps == 1

----------------------------------------------------------------------------
(* Time *)

Second == TicksPerSecond
Day == 24 * 60 * 60 * Second
StartTime == T0 * Second

\* int(current_time): truncation of a float number of seconds
int(t) == (t \div TicksPerSecond) * TicksPerSecond

\* 30 * 24 * 60 * 60
expiration_extension == 30 * Day

\* 7 * 24 * 60 * 60
expiring_soon == 7 * Day

ClockJumps == {1, 24 * Day, 31 * Day}

----------------------------------------------------------------------------
(* Cookies *)

CookieNames == <<"sid", "csrf", "pref", "ab", "lang">>

HasExpires(cookie) == "expires" \in DOMAIN cookie

WithExpires(cookie, e) ==
    [f \in DOMAIN cookie \cup {"expires"} |->
        IF f = "expires" THEN e ELSE cookie[f]]

\* what the browser reports for a live cookie: a session cookie carries
\* expires = -1, a persistent one its expiry; "absent" is a cookie dict
\* without the key
LiveKinds == {"absent", "session", "short"}

LiveCookie(name, kind, t) ==
    CASE kind = "absent"  -> [name |-> name, value |-> "v"]
      [] kind = "session" -> [name |-> name, value |-> "v", expires |-> -1]
      [] kind = "short"   -> [name |-> name, value |-> "v",
                              expires |-> t + 60 * 60 * Second]

\* what a session file found on disk can hold for a cookie
FileKinds == {"absent", "now", "soon", "week", "far"}

FileCookie(name, kind, t) ==
    CASE kind = "absent"  -> [name |-> name, value |-> "v"]
      [] kind = "now"     -> [name |-> name, value |-> "v", expires |-> t]
      [] kind = "soon"    -> [name |-> name, value |-> "v",
                              expires |-> t + expiring_soon - 1]
      [] kind = "week"    -> [name |-> name, value |-> "v",
                              expires |-> t + expiring_soon]
      [] kind = "far"     -> [name |-> name, value |-> "v",
                              expires |-> t + 60 * Day]

KindSeqs(kinds, max) == UNION {[1..n -> kinds] : n \in 0..max}

LiveCookies(ks, t) == [i \in 1..Len(ks) |-> LiveCookie(CookieNames[i], ks[i], t)]

FileCookies(ks, t) == [i \in 1..Len(ks) |-> FileCookie(CookieNames[i], ks[i], t)]

----------------------------------------------------------------------------
(* The session file *)

NoFile == [exists |-> FALSE, kind |-> "none", data |-> <<>>]

JsonFile(cookies) == [exists |-> TRUE, kind |-> "json", data |-> cookies]

\* the file after open(path, "w") truncated it and the write did not
\* complete: empty or partially written, not parseable
BrokenFile == [exists |-> TRUE, kind |-> "garbage", data |-> <<>>]

\* a file that is there and cannot be opened or read
UnreadableFile == [exists |-> TRUE, kind |-> "unreadable", data |-> <<>>]

VARIABLES
    cookie_file,      \* the persisted session file
    now,              \* time.time(), in ticks
    clock_steps,      \* how often the clock was advanced
    call,             \* the last call of the store and what it returned
    saved_from,       \* the live cookies of the last save that returned True
    add_called,       \* whether the last load called context.add_cookies
    context_cookies,  \* the cookies the last load passed to add_cookies
    read_file,        \* what the last load found at the path of the file
    writing           \* the save_cookies in progress between its statements

sessionVars == <<cookie_file, now, clock_steps, call, saved_from,
                 add_called, context_cookies, read_file, writing>>

\* no save_cookies is between two of its statements
NotWriting == [pc |-> "idle", cookies |-> <<>>, previous |-> NoFile]

\* fault: whether the environment made a step of the call fail; a save
\* also has live, the number of live cookies it read (-1: reading them
\* raised), and mkdir, whether it got to create the directory
NoCall ==
    [op |-> "none", impl |-> "none", returned |-> FALSE, at |-> 0,
     fault |-> FALSE]

VARIABLES
    resolver,         \* "find" or "fallbacks": the resolver that runs
    selectors,        \* the ordered candidate list it was given
    page,             \* what the page does for each candidate selector
    idx,              \* the loop position: the next candidate to try
    queried,          \* the candidates passed to page.wait_for_selector
    found             \* the state of the call and what it returned

resolverVars == <<resolver, selectors, page, idx, queried, found>>

VARIABLES
    variant,          \* "core" (core/bot.py) or "legacy" (bot.py)
    entry,            \* "api": the method is called; "cli": cli.py runs
    pc,               \* the position of the run
    args,             \* the arguments of the run
    cookies_loaded,   \* self.cookies_loaded of the core bot
    result,           \* the result dict of execute_workflow
    full_result,      \* the result dict of execute_full_workflow
    history,          \* the steps invoked so far, each with its outcome
    closed,           \* how often the browser was closed
    exit_status       \* the exit of the command line process

workflowVars == <<variant, entry, pc, args, cookies_loaded, result,
                  full_result, history, closed, exit_status>>

VARIABLES
    password,         \* the password of each of two runs set side by side
    debug,            \* the debug flag given to setup_logging
    log_file,         \* what each of the two runs has written to LOG_FILE
    log_pc            \* how far the two runs have got

logVars == <<password, debug, log_file, log_pc>>

VARIABLES
    navigator,        \* whose navigate_to_conversation is called
    navigations       \* the calls made so far, each with what it did

navVars == <<navigator, navigations>>

VARIABLES
    poll_pc,          \* where the login is in its wait for the redirect
    poll_i,           \* the passes of the polling loop made so far
    initial_url,      \* page.url when the loop is entered
    current_url,      \* page.url as the last pass read it
    url_changed       \* the flag the loop sets when it breaks

pollVars == <<poll_pc, poll_i, initial_url, current_url, url_changed>>

VARIABLES
    returned_earlier  \* what the earlier calls of the resolver returned

earlierVars == <<returned_earlier>>

VARIABLES
    delay_call        \* a call of HumanBehavior.delay and the pause it made

delayVars == <<delay_call>>

VARIABLES
    type_call         \* a call of HumanBehavior.human_type and the field

typeVars == <<type_call>>

VARIABLES
    listing_call      \* a call of send_message: the URL, the page calls made

listingVars == <<listing_call>>

VARIABLES
    retry             \* a call of retry_with_backoff: attempts and waits

retryVars == <<retry>>

vars == <<sessionVars, resolverVars, workflowVars, logVars, navVars, pollVars, earlierVars, delayVars, typeVars, listingVars, retryVars>>

----------------------------------------------------------------------------
(* save_cookies *)

\* the loop body of save_cookies
ExtendCookie(cookie, current_time) ==
    IF HasExpires(cookie) /\ cookie.expires > 0
    THEN WithExpires(cookie, int(current_time) + expiration_extension)
    ELSE IF ~HasExpires(cookie)
    THEN WithExpires(cookie, int(current_time) + expiration_extension)
    ELSE cookie

\* a save that writes the persistent cookies only and leaves the session
\* cookies (expires = -1) out
extended_persistent_cookies(cookies, current_time) ==
    LET kept == SelectSeq(cookies,
                    LAMBDA c : ~(HasExpires(c) /\ c.expires <= 0))
    IN [i \in 1..Len(kept) |-> ExtendCookie(kept[i], current_time)]

extended_cookies(cookies, current_time) ==
    [i \in 1..Len(cookies) |-> ExtendCookie(cookies[i], current_time)]

\* save_cookies without its test of the live cookies: an empty set is
\* written like any other
NothingToSaveNever(cookies) == FALSE

\* if not cookies: return False
NothingToSave(cookies) == cookies = <<>>

\* where save_cookies can fail: reading the live cookies, creating the
\* directory, opening the file, serialising and writing
SaveFailures == {"none", "cookies", "mkdir", "open", "dump"}

\* the outcome of one save_cookies call: what it returns, what the file
\* holds afterwards and whether json.dump was reached
SaveOutcome(file, cookies, current_time, fail) ==
    IF fail = "cookies"
    THEN [returned |-> FALSE, file |-> file, dumped |-> FALSE,
          mkdir |-> FALSE]
    ELSE IF NothingToSave(cookies)
    THEN [returned |-> FALSE, file |-> file, dumped |-> FALSE,
          mkdir |-> FALSE]
    ELSE IF fail \in {"mkdir", "open"}
    THEN [returned |-> FALSE, file |-> file, dumped |-> FALSE,
          mkdir |-> TRUE]
    ELSE IF fail = "dump"
    THEN [returned |-> FALSE, file |-> BrokenFile, dumped |-> TRUE,
          mkdir |-> TRUE]
    ELSE [returned |-> TRUE,
          file |-> JsonFile(extended_cookies(cookies, current_time)),
          dumped |-> TRUE, mkdir |-> TRUE]

SaveCall(impl, cookies, fail) ==
    LET out == SaveOutcome(cookie_file, cookies, now, fail) IN
    /\ cookie_file' = out.file
    /\ call' = [op |-> "save", impl |-> impl, returned |-> out.returned,
                at |-> now, fault |-> fail # "none",
                live |-> IF fail = "cookies" THEN -1 ELSE Len(cookies),
                mkdir |-> out.mkdir]
    /\ saved_from' = IF out.returned THEN cookies ELSE <<>>
    /\ add_called' = FALSE
    /\ context_cookies' = <<>>
    /\ read_file' = NoFile
    /\ UNCHANGED <<now, clock_steps, writing, resolverVars, workflowVars, logVars, navVars, pollVars, earlierVars, delayVars, typeVars, listingVars, retryVars>>

SessionManager_save_cookies ==
    \E ks \in KindSeqs(LiveKinds, MaxLive), fail \in SaveFailures :
        SaveCall("session", LiveCookies(ks, now), fail)

auth_save_cookies ==
    \E ks \in KindSeqs(LiveKinds, MaxLive), fail \in SaveFailures :
        SaveCall("auth", LiveCookies(ks, now), fail)

----------------------------------------------------------------------------
(* load_cookies *)

\* the expiry test with "<" for "<=": a cookie expiring this very instant
\* would pass as valid
IsExpiredStrictly(cookie, current_time) ==
    HasExpires(cookie) /\ cookie.expires < current_time

\* if 'expires' in cookie and cookie['expires'] <= current_time: continue
IsExpired(cookie, current_time) ==
    HasExpires(cookie) /\ cookie.expires <= current_time

\* the loop body of load_cookies for a cookie that is kept
RefreshCookie(cookie, current_time) ==
    IF HasExpires(cookie)
    THEN IF cookie.expires < current_time + expiring_soon
         THEN WithExpires(cookie, int(current_time) + expiration_extension)
         ELSE cookie
    ELSE WithExpires(cookie, int(current_time) + expiration_extension)

valid_cookies(cookies, current_time) ==
    LET kept == SelectSeq(cookies, LAMBDA c : ~IsExpired(c, current_time))
    IN [i \in 1..Len(kept) |-> RefreshCookie(kept[i], current_time)]

\* load_cookies without its test of what the filter left: an empty list
\* goes to add_cookies and the load reports success
NoValidCookiesNever(valid) == FALSE

\* if not valid_cookies: return False
NoValidCookies(valid) == valid = <<>>

\* the outcome of one load_cookies call: what it returns, whether
\* context.add_cookies was called and with what
LoadOutcome(file, current_time, read_fails, add_fails) ==
    LET none == [returned |-> FALSE, added |-> FALSE, cookies |-> <<>>] IN
    IF ~file.exists THEN none
    ELSE IF read_fails \/ file.kind # "json" THEN none
    ELSE IF file.data = <<>> THEN none
    ELSE LET valid == valid_cookies(file.data, current_time) IN
         IF NoValidCookies(valid) THEN none
         ELSE [returned |-> ~add_fails, added |-> TRUE, cookies |-> valid]

\* the cookie loading inside setup_browser of bot_new.py: the parsed file
\* goes to add_cookies as it is
RawLoadOutcome(file, read_fails, add_fails) ==
    IF ~file.exists \/ read_fails \/ file.kind # "json"
    THEN [returned |-> FALSE, added |-> FALSE, cookies |-> <<>>]
    ELSE [returned |-> ~add_fails, added |-> TRUE, cookies |-> file.data]

\* a load that writes the cookies it handed to the context back to the file
LoadCallWritingBack(impl, out, read_fails, add_fails) ==
    /\ call' = [op |-> "load", impl |-> impl, returned |-> out.returned,
                at |-> now, fault |-> read_fails \/ add_fails]
    /\ add_called' = out.added
    /\ context_cookies' = out.cookies
    /\ read_file' = IF read_fails /\ cookie_file.exists
                    THEN UnreadableFile ELSE cookie_file
    /\ cookie_file' = IF out.added THEN JsonFile(out.cookies) ELSE cookie_file
    /\ UNCHANGED <<now, clock_steps, saved_from, writing,
                   resolverVars, workflowVars, logVars, navVars, pollVars,
                   earlierVars, delayVars, typeVars, listingVars, retryVars>>

LoadCall(impl, out, read_fails, add_fails) ==
    /\ call' = [op |-> "load", impl |-> impl, returned |-> out.returned,
                at |-> now, fault |-> read_fails \/ add_fails]
    /\ add_called' = out.added
    /\ context_cookies' = out.cookies
    /\ read_file' = IF read_fails /\ cookie_file.exists
                    THEN UnreadableFile ELSE cookie_file
    /\ UNCHANGED <<cookie_file, now, clock_steps, saved_from, writing,
                   resolverVars, workflowVars, logVars, navVars, pollVars, earlierVars, delayVars, typeVars, listingVars, retryVars>>

SessionManager_load_cookies ==
    \E read_fails \in BOOLEAN, add_fails \in BOOLEAN :
        LoadCall("session",
                 LoadOutcome(cookie_file, now, read_fails, add_fails),
                 read_fails, add_fails)

auth_load_cookies ==
    \E read_fails \in BOOLEAN, add_fails \in BOOLEAN :
        LoadCall("auth",
                 LoadOutcome(cookie_file, now, read_fails, add_fails),
                 read_fails, add_fails)

setup_browser_load_cookies ==
    \E read_fails \in BOOLEAN, add_fails \in BOOLEAN :
        LoadCall("setup_browser",
                 RawLoadOutcome(cookie_file, read_fails, add_fails),
                 read_fails, add_fails)

----------------------------------------------------------------------------
(* save_cookies statement by statement, as a second process that uses the  *)
(* same path sees it: between open(path, "w") and the end of json.dump the *)
(* file is what has been written so far                                    *)

\* cookies = await context.cookies() up to mkdir: nothing is written yet
save_cookies_begin ==
    /\ writing.pc = "idle"
    /\ \E ks \in KindSeqs(LiveKinds, MaxLive) :
          /\ ks # <<>>
          /\ writing' = [pc |-> "open",
                         cookies |-> extended_cookies(LiveCookies(ks, now), now),
                         previous |-> cookie_file]
    /\ UNCHANGED <<cookie_file, now, clock_steps, call, saved_from,
                   add_called, context_cookies, read_file, resolverVars,
                   workflowVars, logVars, navVars, pollVars, earlierVars, delayVars, typeVars, listingVars, retryVars>>

\* with open(self.cookies_path, "w", encoding="utf-8") as f: the mode "w"
\* creates the file or truncates it to length zero
save_cookies_open ==
    /\ writing.pc = "open"
    /\ cookie_file' = BrokenFile
    /\ writing' = [writing EXCEPT !.pc = "dump"]
    /\ UNCHANGED <<now, clock_steps, call, saved_from, add_called,
                   context_cookies, read_file, resolverVars, workflowVars, logVars, navVars, pollVars, earlierVars, delayVars, typeVars, listingVars, retryVars>>

\* json.dump(extended_cookies, f, indent=2) and the end of the with block
save_cookies_dump ==
    /\ writing.pc = "dump"
    /\ \E fails \in BOOLEAN :
          /\ cookie_file' = IF fails THEN BrokenFile
                            ELSE JsonFile(writing.cookies)
          /\ call' = [op |-> "save", impl |-> "session",
                      returned |-> ~fails, at |-> now, fault |-> fails,
                      live |-> Len(writing.cookies), mkdir |-> TRUE]
    /\ writing' = NotWriting
    /\ saved_from' = <<>>
    /\ add_called' = FALSE
    /\ context_cookies' = <<>>
    /\ read_file' = NoFile
    /\ UNCHANGED <<now, clock_steps, resolverVars, workflowVars, logVars, navVars, pollVars, earlierVars, delayVars, typeVars, listingVars, retryVars>>

----------------------------------------------------------------------------
(* The environment of the store *)

\* the session files a run of the store can find in place: none, one that
\* does not parse, or a JSON list of cookies left by an earlier run or
\* exported from a browser (the JSON layout of the file is public)
\* load_cookies treats each cookie of the file on its own and keeps their
\* order, so the files are enumerated up to the order of their cookies
FileKindOrder == <<"absent", "now", "soon", "week", "far">>

KindRank(kind) == CHOOSE i \in 1..Len(FileKindOrder) : FileKindOrder[i] = kind

FileKindSeqs ==
    {ks \in KindSeqs(FileKinds, MaxCookies) :
        \A i \in 1..(Len(ks) - 1) : KindRank(ks[i]) <= KindRank(ks[i + 1])}

FoundFiles ==
    {NoFile, BrokenFile} \cup
    {JsonFile(FileCookies(ks, StartTime)) : ks \in FileKindSeqs}

AdvanceClock ==
    /\ clock_steps < MaxClockSteps
    /\ \E d \in ClockJumps : now' = now + d
    /\ clock_steps' = clock_steps + 1
    /\ call' = NoCall
    /\ saved_from' = <<>>
    /\ add_called' = FALSE
    /\ context_cookies' = <<>>
    /\ read_file' = NoFile
    /\ UNCHANGED <<cookie_file, writing, resolverVars, workflowVars, logVars, navVars, pollVars, earlierVars, delayVars, typeVars, listingVars, retryVars>>


----------------------------------------------------------------------------
(* The fallback resolvers: SelectorManager.find and                        *)
(* wait_for_selector_with_fallbacks                                        *)

MaxCandidates == 3
MaxCalls == 2

Candidates == {"c1", "c2", "c3"}

\* what page.wait_for_selector does for one candidate: it returns an
\* element that is visible and enabled ("element") or visible and disabled
\* ("disabled"), runs into its timeout (nothing matches, or what matches
\* stays hidden), raises another error, or returns None
Behaviours == {"element", "disabled", "timeout", "error", "none"}

CandidateLists == UNION {[1..n -> Candidates] : n \in 0..MaxCandidates}

None == [is_element |-> FALSE, selector |-> "None"]

ElementOf(selector) == [is_element |-> TRUE, selector |-> selector]

Running == [state |-> "running", element |-> None, index |-> 0]

\* the test "if element:" on what wait_for_selector returned; a timeout or
\* an error never gets there, the except clause continues the loop
Matched(behaviour) == behaviour \in {"element", "disabled"}

\* the loop with "return None" for "continue" in the except clause: the
\* first candidate that fails ends the search
TryCandidateWithoutFallback ==
    /\ found.state = "running"
    /\ idx <= Len(selectors)
    /\ LET selector == selectors[idx] IN
       /\ queried' = Append(queried, selector)
       /\ IF Matched(page[selector])
          THEN /\ found' = [state |-> "returned",
                            element |-> ElementOf(selector), index |-> idx]
               /\ idx' = idx
          ELSE IF page[selector] \in {"timeout", "error"}
          THEN /\ found' = [state |-> "returned", element |-> None,
                            index |-> 0]
               /\ idx' = idx
          ELSE /\ found' = found
               /\ idx' = idx + 1
    /\ UNCHANGED <<resolver, selectors, page, sessionVars, workflowVars, logVars, navVars, pollVars, earlierVars, delayVars, typeVars, listingVars, retryVars>>

\* one pass of the loop "for selector in selectors"
TryCandidate ==
    /\ found.state = "running"
    /\ idx <= Len(selectors)
    /\ LET selector == selectors[idx] IN
       /\ queried' = Append(queried, selector)
       /\ IF Matched(page[selector])
          THEN /\ found' = [state |-> "returned",
                            element |-> ElementOf(selector), index |-> idx]
               /\ idx' = idx
          ELSE /\ found' = found
               /\ idx' = idx + 1
    /\ UNCHANGED <<resolver, selectors, page, sessionVars, workflowVars, logVars, navVars, pollVars, earlierVars, delayVars, typeVars, listingVars, retryVars>>

\* a resolver that starts over from the first candidate when none matched
RetryFromFirst ==
    /\ found.state = "running"
    /\ idx > Len(selectors)
    /\ idx' = 1
    /\ queried' = <<>>
    /\ UNCHANGED <<resolver, selectors, page, found, sessionVars,
                   workflowVars, logVars, navVars, pollVars, earlierVars, delayVars, typeVars, listingVars, retryVars>>

\* the loop is over (or the list was empty): return None
ReturnNone ==
    /\ found.state = "running"
    /\ idx > Len(selectors)
    /\ found' = [state |-> "returned", element |-> None, index |-> 0]
    /\ UNCHANGED <<resolver, selectors, page, idx, queried, sessionVars,
                   workflowVars, logVars, navVars, pollVars, earlierVars, delayVars, typeVars, listingVars, retryVars>>

find_try == resolver = "find" /\ TryCandidate

find_not_found == resolver = "find" /\ ReturnNone

fallbacks_try == resolver = "fallbacks" /\ TryCandidate

fallbacks_not_found == resolver = "fallbacks" /\ ReturnNone

ResolverIdle ==
    /\ resolver = "none"
    /\ selectors = <<>>
    /\ page = [c \in Candidates |-> "timeout"]
    /\ idx = 1
    /\ queried = <<>>
    /\ found = Running

\* no call of the resolver has returned yet
NoEarlierCall == returned_earlier = <<>>

----------------------------------------------------------------------------
(* The workflow: execute_workflow (core/bot.py), execute_full_workflow     *)
(* (bot.py) and the command line entry send_and_offer (cli.py)             *)

EXIT_SUCCESS == 0
EXIT_LOGIN_FAILED == 1
EXIT_MESSAGE_FAILED == 2
EXIT_CONVERSATION_NOT_FOUND == 3
EXIT_OFFER_FAILED == 4
EXIT_BROWSER_FAILED == 5

Steps == <<"setup", "auth", "message", "navigation", "offer">>

StepIndex(step) == CHOOSE i \in 1..Len(Steps) : Steps[i] = step

valid_deliveries == {"pickup", "shipping", "both"}

Deliveries == valid_deliveries \cup {"express"}

ShippingCosts == {"None", "4.99"}

Arguments ==
    [delivery : Deliveries, shipping_cost : ShippingCosts,
     force_fresh_login : BOOLEAN]

\* result = {"success": False, "steps_completed": [], "errors": []}
NewResult == [success |-> FALSE, steps_completed |-> <<>>, errors |-> <<>>]

\* the result dict execute_full_workflow starts from
NewFullResult ==
    [browser_setup |-> FALSE, authentication |-> FALSE,
     message_sent |-> FALSE, conversation_opened |-> FALSE,
     offer_sent |-> FALSE, exit_code |-> EXIT_BROWSER_FAILED]

NotExited == [exited |-> FALSE, code |-> EXIT_SUCCESS]

Exited(code) == [exited |-> TRUE, code |-> code]

\* a call binds its arguments before the body runs: a required parameter
\* that is not passed, or a keyword the function does not have, raises
\* TypeError at the call
BindFails(required, accepted, passed) ==
    \/ required \ passed # {}
    \/ passed \ accepted # {}

\* MessageManager.send_message(listing_url, message, offer_price, delivery,
\*   profile_name="User", shipping_cost=None, enable_buyer_protection=True,
\*   fast_mode=True)
send_message_required == {"listing_url", "message", "offer_price", "delivery"}

send_message_accepted ==
    send_message_required \cup
    {"profile_name", "shipping_cost", "enable_buyer_protection", "fast_mode"}

\* self.message_manager.send_message(listing_url, message)
send_message_passed == {"listing_url", "message"}

\* KleinanzeigenBot.execute_full_workflow of bot.py
execute_full_workflow_required == {"listing_url", "message", "price", "delivery"}

execute_full_workflow_accepted ==
    execute_full_workflow_required \cup
    {"shipping_cost", "note", "force_fresh_login", "save_screenshot"}

\* the keywords cli.py passes to bot.execute_full_workflow
cli_passed ==
    {"listing_url", "message", "price", "delivery", "shipping_cost", "note",
     "force_fresh_login", "save_screenshot", "debug_mode"}

----------------------------------------------------------------------------
(* The steps: what each returns ("ok", "failed") or that it raises         *)
(* ("raised"), as a function of what the browser and the page do           *)

\* a setup that gives up when no stored session could be applied
core_setup_requiring_cookies(launch_ok, loaded) ==
    IF launch_ok /\ loaded THEN "ok" ELSE "failed"

\* KleinanzeigenBot.setup of core/bot.py: every exception becomes False;
\* what load_cookies returned goes to self.cookies_loaded and nowhere else
core_setup(launch_ok, loaded) == IF launch_ok THEN "ok" ELSE "failed"

\* what a login meets: whether the form can be filled and submitted (or
\* an interaction raises), whether a CAPTCHA indicator resolves, where the
\* browser has landed afterwards, and whether a logged-in element is
\* visible, only present, or not there
LoginPages ==
    [fields : {"ok", "no_email", "no_other", "raises"}, captcha : BOOLEAN,
     landed : {"login=success", "login page", "login page with error",
               "elsewhere"},
     indicator : {"visible", "present", "none"}]

\* "await take_screenshot(...); return ..." inside the try of login: if
\* the screenshot directory cannot be created, take_screenshot raises, the
\* handler "except Exception" calls take_screenshot again, and that
\* exception leaves login
ScreenshotThen(returned, screenshot_raises) ==
    IF screenshot_raises THEN "raised" ELSE returned

\* login of modules/auth.py
core_login(p, screenshot_raises) ==
    IF p.fields = "raises" THEN ScreenshotThen("failed", screenshot_raises)
    ELSE IF p.fields # "ok" THEN ScreenshotThen("failed", screenshot_raises)
    ELSE IF p.captcha /\ ~screenshot_raises THEN "failed"
    ELSE IF p.landed = "login=success" THEN "ok"
    ELSE IF p.indicator = "visible" THEN "ok"
    ELSE ScreenshotThen("failed", screenshot_raises)

\* login of auth.py
legacy_login(p, screenshot_raises) ==
    IF p.fields = "raises" THEN ScreenshotThen("failed", screenshot_raises)
    ELSE IF p.fields = "no_email"
    THEN IF screenshot_raises THEN "raised"
         ELSE IF p.landed = "login=success" THEN "ok"
         ELSE IF p.landed = "elsewhere" THEN "ok"
         ELSE "failed"
    ELSE IF p.fields = "no_other"
    THEN ScreenshotThen("failed", screenshot_raises)
    ELSE IF p.captcha /\ ~screenshot_raises THEN "failed"
    ELSE IF p.landed = "login=success" THEN "ok"
    ELSE IF p.landed # "elsewhere" /\ p.indicator # "visible"
    THEN IF p.landed = "login page with error" THEN "failed"
         ELSE ScreenshotThen("failed", screenshot_raises)
    ELSE IF p.indicator # "none" THEN "ok"
    ELSE ScreenshotThen("ok", screenshot_raises)

\* whether a step of core/bot.py that did not succeed got to a call of
\* take_screenshot: setup and execute_workflow have none, the managers
\* call it on every path that returns False and in their handlers, and
\* the message step raises at the call, before the body of send_message
core_takes_screenshot(step, outcome) ==
    /\ outcome # "ok"
    /\ step # "setup"
    /\ step = "message" => outcome = "failed"

\* the same for bot.py: setup_browser has none, send_message returns False
\* for an invalid URL before its try, every other path that returns False
\* calls it first, and the handler of execute_full_workflow calls it for
\* what a step raises
legacy_takes_screenshot(step, outcome, url_invalid) ==
    /\ outcome # "ok"
    /\ step # "setup"
    /\ step = "message" => ~url_invalid

\* the login got to its CAPTCHA check and an indicator resolved there
captcha_detected(p) == p.fields = "ok" /\ p.captcha

\* a success indicator is there to be observed: login=success in the URL
\* or a visible logged-in element
success_indicator(p) == p.landed = "login=success" \/ p.indicator = "visible"

\* authenticate of core/bot.py gets to "return await login(...)"
core_logs_in(loaded, force_fresh) == ~(loaded /\ ~force_fresh)

\* an authenticate that takes a loaded session even when a fresh login is
\* asked for
core_authenticate_ignoring_force(loaded, force_fresh, login) ==
    IF loaded THEN "ok" ELSE login

\* KleinanzeigenBot.authenticate of core/bot.py; login is what login()
\* returns or that it raises
core_authenticate(loaded, force_fresh, login) ==
    IF loaded /\ ~force_fresh THEN "ok" ELSE login

\* the call of MessageManager.send_message in execute_workflow
core_send_message(sent_ok) ==
    IF BindFails(send_message_required, send_message_accepted,
                 send_message_passed)
    THEN "raised"
    ELSE IF sent_ok THEN "ok" ELSE "failed"

\* NavigationManager.navigate_to_conversation
core_navigate(conversation_url, goto_ok, latest_found) ==
    IF ~goto_ok THEN "failed"
    ELSE IF conversation_url THEN "ok"
    ELSE IF latest_found THEN "ok" ELSE "failed"

\* what an optional control of the offer form does when it is looked up
\* and used
Controls == {"ok", "missing", "raises"}

\* an optional control of make_offer: looked up and used inside a try whose
\* handler only logs (a bare "except: continue" in bot.py), a lookup that
\* finds nothing is passed over
Guarded(control) == IF control = "ok" THEN "done" ELSE "skipped"

\* the shipping cost input is only looked up under
\* "if shipping_cost and delivery in ['shipping', 'both']"
shipping_applies(a) ==
    a.shipping_cost # "None" /\ a.delivery \in {"shipping", "both"}

\* make_offer gets as far as looking up the submit control
reaches_submit(offer_clicked, price_filled, delivery_select, shipping_input, note_textarea) ==
    /\ offer_clicked
    /\ price_filled
    /\ "raised" \notin {Guarded(delivery_select), Guarded(shipping_input),
                        Guarded(note_textarea)}

\* OfferManager.make_offer: the offer button, the price input and the
\* submit control decide
core_make_offer(offer_clicked, price_filled, delivery_select, shipping_input, note_textarea, submit_clicked) ==
    IF ~offer_clicked THEN "failed"
    ELSE IF ~price_filled THEN "failed"
    ELSE IF ~reaches_submit(offer_clicked, price_filled, delivery_select,
                            shipping_input, note_textarea) THEN "failed"
    ELSE IF ~submit_clicked THEN "failed"
    ELSE "ok"

\* KleinanzeigenBot.setup_browser of bot.py
legacy_setup_browser(launch_ok) == IF launch_ok THEN "ok" ELSE "failed"

\* authenticate of bot.py gets to "login_success = await login(...)"
legacy_logs_in(force_fresh, loaded, goto_ok, indicator) ==
    ~(~force_fresh /\ loaded /\ (~goto_ok \/ indicator))

\* KleinanzeigenBot.authenticate of bot.py; page.goto is outside of any try
legacy_authenticate(force_fresh, loaded, goto_ok, indicator, login) ==
    IF ~force_fresh /\ loaded /\ ~goto_ok THEN "raised"
    ELSE IF ~force_fresh /\ loaded /\ indicator THEN "ok"
    ELSE login

\* whether authenticate of bot.py got to login() and login succeeded, which
\* is when it calls save_cookies
legacy_saves(force_fresh, loaded, goto_ok, indicator, login) ==
    /\ legacy_logs_in(force_fresh, loaded, goto_ok, indicator)
    /\ login = "ok"

\* KleinanzeigenBot.send_message of bot.py
legacy_send_message(url_valid, goto_ok, clicked, filled, send_clicked) ==
    IF ~url_valid THEN "failed"
    ELSE IF ~goto_ok THEN "failed"
    ELSE IF ~clicked THEN "failed"
    ELSE IF ~filled THEN "failed"
    ELSE IF ~send_clicked THEN "failed"
    ELSE "ok"

\* KleinanzeigenBot.navigate_to_conversation of bot.py
legacy_navigate(goto_ok, conversation_clicked) ==
    IF goto_ok /\ conversation_clicked THEN "ok" ELSE "failed"

\* KleinanzeigenBot.make_offer of bot.py; when no submit selector could be
\* clicked it presses Enter and takes that for the click
legacy_make_offer(offer_clicked, price_filled, delivery_select, shipping_input, note_textarea, submit_clicked, enter_pressed) ==
    IF ~offer_clicked THEN "failed"
    ELSE IF ~price_filled THEN "failed"
    ELSE IF ~reaches_submit(offer_clicked, price_filled, delivery_select,
                            shipping_input, note_textarea) THEN "failed"
    ELSE IF ~submit_clicked /\ ~enter_pressed THEN "failed"
    ELSE "ok"

----------------------------------------------------------------------------
(* The orchestration around the steps *)

\* the orchestration without the "if not ...: return result" tests: the
\* next step runs whatever the step returned
NextPcUnchecked(step, outcome) ==
    IF outcome # "raised" /\ StepIndex(step) < Len(Steps)
    THEN Steps[StepIndex(step) + 1]
    ELSE "finally"

\* an orchestration that runs a step again when it did not succeed
NextPcRetrying(step, outcome) ==
    IF outcome # "ok" THEN step
    ELSE IF StepIndex(step) < Len(Steps) THEN Steps[StepIndex(step) + 1]
    ELSE "finally"

\* an orchestration whose "return result" of a failed step is not under
\* the finally clause
NextPcReturningEarly(step, outcome) ==
    IF outcome = "ok" /\ StepIndex(step) < Len(Steps)
    THEN Steps[StepIndex(step) + 1]
    ELSE IF outcome = "failed" THEN "returned"
    ELSE "finally"

\* where the run goes after a step: to the next step if it succeeded and
\* there is one, else out through the finally clause
NextPc(step, outcome) ==
    IF outcome = "ok" /\ StepIndex(step) < Len(Steps)
    THEN Steps[StepIndex(step) + 1]
    ELSE "finally"

\* the texts execute_workflow appends to result["errors"]
ErrorText(step) ==
    CASE step = "setup"      -> "Setup failed"
      [] step = "auth"       -> "Authentication failed"
      [] step = "message"    -> "Message failed"
      [] step = "navigation" -> "Navigation failed"
      [] step = "offer"      -> "Offer failed"

\* result of execute_workflow after a step; a raised exception lands in
\* "except Exception as e", which appends str(e)
ResultAfter(res, step, outcome) ==
    IF outcome = "ok"
    THEN [res EXCEPT !.steps_completed = Append(@, step),
                     !.success = (step = "offer")]
    ELSE IF outcome = "failed"
    THEN [res EXCEPT !.errors = Append(@, ErrorText(step))]
    ELSE [res EXCEPT !.errors = Append(@, "str(e)")]

FlagOf(step) ==
    CASE step = "setup"      -> "browser_setup"
      [] step = "auth"       -> "authentication"
      [] step = "message"    -> "message_sent"
      [] step = "navigation" -> "conversation_opened"
      [] step = "offer"      -> "offer_sent"

\* the exit code execute_full_workflow assigns when a step returns False;
\* a failed setup keeps the code the dict started with
FailureCode(res, step) ==
    CASE step = "setup"      -> res.exit_code
      [] step = "auth"       -> EXIT_LOGIN_FAILED
      [] step = "message"    -> EXIT_MESSAGE_FAILED
      [] step = "navigation" -> EXIT_CONVERSATION_NOT_FOUND
      [] step = "offer"      -> EXIT_OFFER_FAILED

\* result of execute_full_workflow after a step; a raised exception lands
\* in "except Exception as e", which leaves the dict as it is
FullResultAfter(res, step, outcome) ==
    IF outcome = "ok"
    THEN [res EXCEPT ![FlagOf(step)] = TRUE,
                     !.exit_code = IF step = "offer" THEN EXIT_SUCCESS ELSE @]
    ELSE IF outcome = "failed"
    THEN [res EXCEPT !.exit_code = FailureCode(res, step)]
    ELSE res

\* what a step did besides returning, kept with the step in history: how
\* load_cookies, login and save_cookies ended ("none": not called), what
\* the login page showed, and what make_offer met in the offer form
NoNote ==
    [load |-> "none", login |-> "none", save |-> "none", captcha |-> FALSE,
     verified |-> FALSE, priced |-> FALSE, critical |-> FALSE,
     degraded |-> FALSE, select_missing |-> FALSE, submit |-> FALSE,
     shipping_tried |-> FALSE, url_invalid |-> FALSE, screenshot |-> FALSE]

StepDone(step, outcome, note) ==
    /\ history' = Append(history,
           [step |-> step, outcome |-> outcome,
            note |-> [note EXCEPT !.screenshot =
                         IF variant = "core"
                         THEN core_takes_screenshot(step, outcome)
                         ELSE legacy_takes_screenshot(step, outcome,
                                                      note.url_invalid)]])
    /\ pc' = NextPc(step, outcome)
    /\ result' = IF variant = "core"
                 THEN ResultAfter(result, step, outcome) ELSE result
    /\ full_result' = IF variant = "legacy"
                      THEN FullResultAfter(full_result, step, outcome)
                      ELSE full_result
    /\ UNCHANGED <<variant, entry, args, closed, exit_status, resolverVars,
                   logVars, navVars, pollVars, earlierVars, delayVars, typeVars, listingVars, retryVars,
                   now, clock_steps, call, saved_from, add_called,
                   context_cookies, read_file, writing>>

\* how a call of load_cookies ended, as the caller sees it
LoadNote(load) == IF load.returned THEN "ok" ELSE "failed"

\* how a call of save_cookies ended, as the caller sees it
SaveNote(saved) == IF saved.returned THEN "ok" ELSE "failed"

\* Step 1; the core loads the stored cookies into the new context
Setup ==
    /\ pc = "setup"
    /\ \E launch_ok \in BOOLEAN, read_fails \in BOOLEAN, add_fails \in BOOLEAN :
          LET load == LoadOutcome(cookie_file, now, read_fails, add_fails)
              hydrates == variant = "core" /\ launch_ok
              outcome == IF variant = "core"
                         THEN core_setup(launch_ok, load.returned)
                         ELSE legacy_setup_browser(launch_ok)
          IN /\ cookies_loaded' = IF hydrates THEN load.returned
                                  ELSE cookies_loaded
             /\ StepDone("setup", outcome,
                    [NoNote EXCEPT !.load = IF hydrates THEN LoadNote(load)
                                            ELSE "none"])
    /\ UNCHANGED cookie_file

\* the login of step 2 and what is recorded of it
LoginNote(login, p) ==
    [NoNote EXCEPT !.login = login, !.captcha = captcha_detected(p),
                   !.verified = success_indicator(p)]

\* Step 2 of the core
core_Authenticate ==
    /\ variant = "core"
    /\ LET force == args.force_fresh_login
           loaded == IF cookies_loaded THEN "ok" ELSE "failed"
       IN IF core_logs_in(cookies_loaded, force)
          THEN \E p \in LoginPages, screenshot_raises \in BOOLEAN :
                  LET login == core_login(p, screenshot_raises)
                  IN StepDone("auth",
                         core_authenticate(cookies_loaded, force, login),
                         [LoginNote(login, p) EXCEPT !.load = loaded])
          ELSE StepDone("auth",
                   core_authenticate(cookies_loaded, force, "ok"),
                   [NoNote EXCEPT !.load = loaded])
    /\ UNCHANGED cookie_file

\* Step 2 of bot.py: load_cookies unless a fresh login is forced, then the
\* login where it is needed, then save_cookies after a login that succeeded
legacy_Authenticate ==
    /\ variant = "legacy"
    /\ \E goto_ok \in BOOLEAN, indicator \in BOOLEAN,
          read_fails \in BOOLEAN, add_fails \in BOOLEAN :
          LET force == args.force_fresh_login
              load == LoadOutcome(cookie_file, now, read_fails, add_fails)
              loaded == ~force /\ load.returned
              tried == IF force THEN "none" ELSE LoadNote(load)
          IN IF legacy_logs_in(force, loaded, goto_ok, indicator)
             THEN \E p \in LoginPages, screenshot_raises \in BOOLEAN :
                     LET login == legacy_login(p, screenshot_raises)
                         outcome == legacy_authenticate(force, loaded, goto_ok,
                                                        indicator, login)
                     IN IF legacy_saves(force, loaded, goto_ok, indicator,
                                        login)
                        THEN \E ks \in KindSeqs(LiveKinds, MaxLive),
                                fail \in SaveFailures :
                                LET saved == SaveOutcome(cookie_file,
                                                 LiveCookies(ks, now), now, fail)
                                IN /\ cookie_file' = saved.file
                                   /\ StepDone("auth", outcome,
                                          [LoginNote(login, p) EXCEPT
                                              !.load = tried,
                                              !.save = SaveNote(saved)])
                        ELSE /\ cookie_file' = cookie_file
                             /\ StepDone("auth", outcome,
                                    [LoginNote(login, p) EXCEPT
                                        !.load = tried])
             ELSE /\ cookie_file' = cookie_file
                  /\ StepDone("auth",
                         legacy_authenticate(force, loaded, goto_ok, indicator,
                                             "ok"),
                         [NoNote EXCEPT !.load = tried])

\* Step 2
Authenticate ==
    /\ pc = "auth"
    /\ (core_Authenticate \/ legacy_Authenticate)
    /\ UNCHANGED cookies_loaded

\* Step 3
SendMessage ==
    /\ pc = "message"
    /\ \E url_valid \in BOOLEAN, goto_ok \in BOOLEAN,
          message_clicked \in BOOLEAN, message_filled \in BOOLEAN,
          send_clicked \in BOOLEAN :
          StepDone("message",
              IF variant = "core"
              THEN core_send_message(goto_ok /\ message_clicked
                                     /\ message_filled /\ send_clicked)
              ELSE legacy_send_message(url_valid, goto_ok, message_clicked,
                                       message_filled, send_clicked),
              [NoNote EXCEPT !.url_invalid = variant = "legacy" /\ ~url_valid])
    /\ UNCHANGED <<cookie_file, cookies_loaded>>

\* Step 4; the result of MessageManager.send_message has no
\* "conversation_url", so the core passes None
Navigate ==
    /\ pc = "navigation"
    /\ \E goto_ok \in BOOLEAN, conversation_clicked \in BOOLEAN :
          StepDone("navigation",
              IF variant = "core"
              THEN core_navigate(FALSE, goto_ok, conversation_clicked)
              ELSE legacy_navigate(goto_ok, conversation_clicked),
              NoNote)
    /\ UNCHANGED <<cookie_file, cookies_loaded>>

\* what is recorded of make_offer
OfferNote(offer_clicked, price_filled, delivery_select, shipping_input, note_textarea, submit_clicked) ==
    [NoNote EXCEPT
        !.priced = offer_clicked /\ price_filled,
        !.critical = offer_clicked /\ price_filled /\ submit_clicked,
        !.degraded = {delivery_select, shipping_input, note_textarea} # {"ok"},
        !.select_missing = delivery_select = "missing",
        !.submit = reaches_submit(offer_clicked, price_filled, delivery_select,
                                  shipping_input, note_textarea),
        !.shipping_tried = offer_clicked /\ price_filled
                               /\ shipping_applies(args)]

\* Step 5; after it the core saves the cookies
MakeOffer ==
    /\ pc = "offer"
    /\ \E offer_clicked \in BOOLEAN, price_filled \in BOOLEAN,
          submit_clicked \in BOOLEAN, enter_pressed \in BOOLEAN,
          delivery_select \in Controls, shipping \in Controls,
          note_textarea \in Controls :
          LET shipping_input == IF shipping_applies(args) THEN shipping
                                ELSE "ok"
              outcome ==
                  IF variant = "core"
                  THEN core_make_offer(offer_clicked, price_filled,
                           delivery_select, shipping_input, note_textarea,
                           submit_clicked)
                  ELSE legacy_make_offer(offer_clicked, price_filled,
                           delivery_select, shipping_input, note_textarea,
                           submit_clicked, enter_pressed)
              note == OfferNote(offer_clicked, price_filled, delivery_select,
                                shipping_input, note_textarea, submit_clicked)
          IN IF variant = "core" /\ outcome = "ok"
             THEN \E ks \in KindSeqs(LiveKinds, MaxLive),
                     fail \in SaveFailures :
                     LET saved == SaveOutcome(cookie_file,
                                      LiveCookies(ks, now), now, fail)
                     IN /\ cookie_file' = saved.file
                        /\ StepDone("offer", outcome,
                               [note EXCEPT !.save = SaveNote(saved)])
             ELSE /\ cookie_file' = cookie_file
                  /\ StepDone("offer", outcome, note)
    /\ UNCHANGED cookies_loaded

\* the finally clause closes the browser and the method returns; under
\* cli.py the process then exits with result["exit_code"]
Finish ==
    /\ pc = "finally"
    /\ closed' = closed + 1
    /\ pc' = "returned"
    /\ exit_status' = IF entry = "cli"
                      THEN Exited(full_result.exit_code) ELSE exit_status
    /\ UNCHANGED <<variant, entry, args, cookies_loaded, result, full_result,
                   history, sessionVars, resolverVars, logVars, navVars, pollVars, earlierVars, delayVars, typeVars, listingVars, retryVars>>

\* send_and_offer of cli.py up to the call of execute_full_workflow
send_and_offer ==
    /\ pc = "cli"
    /\ IF args.delivery \notin valid_deliveries
       THEN /\ exit_status' = Exited(EXIT_BROWSER_FAILED)
            /\ pc' = "exited"
            /\ args' = args
       ELSE /\ args' = IF args.shipping_cost # "None" /\ args.delivery = "pickup"
                       THEN [args EXCEPT !.shipping_cost = "None"] ELSE args
            /\ IF BindFails(execute_full_workflow_required,
                            execute_full_workflow_accepted, cli_passed)
               THEN /\ exit_status' = Exited(EXIT_BROWSER_FAILED)
                    /\ pc' = "exited"
               ELSE /\ exit_status' = exit_status
                    /\ pc' = "setup"
    /\ UNCHANGED <<variant, entry, cookies_loaded, result, full_result,
                   history, closed, sessionVars, resolverVars, logVars, navVars, pollVars, earlierVars, delayVars, typeVars, listingVars, retryVars>>

\* the steps of execute_full_workflow of bot_new.py, by the names it
\* appends to result["steps_completed"]
NewSteps == <<"browser_setup", "login", "message_sent", "conversation_opened", "offer_made">>

NewStepIndex(step) == CHOOSE i \in 1..Len(NewSteps) : NewSteps[i] = step

\* the texts execute_full_workflow of bot_new.py appends to result["errors"]
NewErrorText(step) ==
    CASE step = "browser_setup"       -> "Browser setup fehlgeschlagen"
      [] step = "login"               -> "Login fehlgeschlagen"
      [] step = "message_sent"        -> "Message senden fehlgeschlagen"
      [] step = "conversation_opened" -> "Conversation navigation fehlgeschlagen"
      [] step = "offer_made"          -> "Angebot machen fehlgeschlagen"

\* a bookkeeping that takes the run for a success once the last step ran
NewResultAfterLastStep(res, step, outcome) ==
    IF outcome = "ok"
    THEN [res EXCEPT !.steps_completed = Append(@, step),
                     !.success = (step = "offer_made")]
    ELSE [res EXCEPT !.errors = Append(@, NewErrorText(step)),
                     !.success = (step = "offer_made")]

\* result of execute_full_workflow of bot_new.py after a step
NewResultAfter(res, step, outcome) ==
    IF outcome = "ok"
    THEN [res EXCEPT !.steps_completed = Append(@, step),
                     !.success = (step = "offer_made")]
    ELSE IF outcome = "failed"
    THEN [res EXCEPT !.errors = Append(@, NewErrorText(step))]
    ELSE [res EXCEPT !.errors = Append(@, "str(e)")]

\* a step of execute_full_workflow of bot_new.py: the step method returns
\* what counts as success, returns what counts as failure, or raises
execute_full_workflow_step ==
    /\ variant = "new"
    /\ pc \in {NewSteps[k] : k \in 1..Len(NewSteps)}
    /\ \E outcome \in {"ok", "failed", "raised"} :
          /\ history' = Append(history,
                 [step |-> pc, outcome |-> outcome, note |-> NoNote])
          /\ result' = NewResultAfter(result, pc, outcome)
          /\ pc' = IF outcome = "ok" /\ NewStepIndex(pc) < Len(NewSteps)
                   THEN NewSteps[NewStepIndex(pc) + 1] ELSE "finally"
    /\ UNCHANGED <<variant, entry, args, cookies_loaded, full_result, closed,
                   exit_status, sessionVars, resolverVars, logVars, navVars,
                   pollVars, earlierVars, delayVars, typeVars, listingVars, retryVars>>

WorkflowIdle ==
    /\ variant = "none"
    /\ entry = "none"
    /\ pc = "idle"
    /\ args = [delivery |-> "pickup", shipping_cost |-> "None",
               force_fresh_login |-> FALSE]
    /\ cookies_loaded = FALSE
    /\ result = NewResult
    /\ full_result = NewFullResult
    /\ history = <<>>
    /\ closed = 0
    /\ exit_status = NotExited

----------------------------------------------------------------------------
(* The log file: setup_logging and the log calls of the login of auth.py,  *)
(* for two runs that differ in nothing but the password                    *)

\* a text is its first 50 characters and the rest
Texts(heads, tails) == [head : heads, tail : tails]

Passwords == Texts({"hunter2", "swordfish"}, {"", "!"})

Email == [head |-> "user@example.com", tail |-> ""]

NoPassword == [head |-> "", tail |-> ""]

\* text[:50]
Prefix50(text) == text.head

\* the file handler of setup_logging has level DEBUG if debug, else INFO
Logged(level, debug_flag) == level # "DEBUG" \/ debug_flag

\* a log call: the line is appended to LOG_FILE if its level is logged
Write(log, level, message, debug_flag) ==
    IF Logged(level, debug_flag)
    THEN Append(log, [level |-> level, message |-> message])
    ELSE log

\* the log calls of safe_fill of utils.py
safe_fill(log, description, text, element_found, fill_raises, debug_flag) ==
    IF element_found
    THEN IF ~fill_raises
         THEN Write(log, "DEBUG",
                    <<"Filled {description} with: {text[:50]}...",
                      description, Prefix50(text)>>, debug_flag)
         ELSE Write(log, "ERROR",
                    <<"Failed to fill {description}: {e}", description, "e">>,
                    debug_flag)
    ELSE Write(log, "ERROR",
               <<"Could not find {description} to fill", description, "">>,
               debug_flag)

Runs == {1, 2}

\* setup_logging: the handlers are added and the first line is written
setup_logging ==
    /\ log_pc = "start"
    /\ log_file' = [r \in Runs |->
           Write(log_file[r], "INFO", <<"Logging initialized", "", "">>, debug)]
    /\ log_pc' = "email"
    /\ UNCHANGED <<password, debug, sessionVars, resolverVars, workflowVars,
                   navVars, pollVars, earlierVars, delayVars, typeVars, listingVars, retryVars>>

\* login of auth.py fills the email field; without it the login is over
login_fill_email ==
    /\ log_pc = "email"
    /\ \E element_found \in BOOLEAN, fill_raises \in BOOLEAN,
          alternative_filled \in BOOLEAN :
          /\ log_file' = [r \in Runs |->
                 safe_fill(Write(log_file[r], "INFO",
                                 <<"Filling email...", "", "">>, debug),
                           "email field", Email, element_found, fill_raises,
                           debug)]
          /\ log_pc' = IF (element_found /\ ~fill_raises) \/ alternative_filled
                       THEN "password" ELSE "done"
    /\ UNCHANGED <<password, debug, sessionVars, resolverVars, workflowVars,
                   navVars, pollVars, earlierVars, delayVars, typeVars, listingVars, retryVars>>

\* login of auth.py fills the password field:
\* safe_fill(page, PASSWORD_FIELD, password, ..., description="password field")
login_fill_password ==
    /\ log_pc = "password"
    /\ \E element_found \in BOOLEAN, fill_raises \in BOOLEAN :
          log_file' = [r \in Runs |->
              safe_fill(Write(log_file[r], "INFO",
                              <<"Filling password...", "", "">>, debug),
                        "password field", password[r], element_found,
                        fill_raises, debug)]
    /\ log_pc' = "done"
    /\ UNCHANGED <<password, debug, sessionVars, resolverVars, workflowVars,
                   navVars, pollVars, earlierVars, delayVars, typeVars, listingVars, retryVars>>

LogIdle ==
    /\ password = [r \in Runs |-> NoPassword]
    /\ debug = FALSE
    /\ log_file = [r \in Runs |-> <<>>]
    /\ log_pc = "idle"

----------------------------------------------------------------------------
(* navigate_to_conversation of modules/navigation.py and of bot_new.py,    *)
(* called with what send_message handed on                                 *)

Inbox == "https://www.kleinanzeigen.de/nachrichtenbox"

\* the conversation_url of a message result: None or the href captured
ConversationUrls == {"None", "/nachrichtenbox", "/messages/42"}

Navigators == {"modules/navigation.py", "bot_new.py"}

\* a call that has done nothing yet
NewNavigation(conversation_url) == [conversation_url |-> conversation_url, visited |-> "None", raised |-> FALSE, resolved |-> FALSE, found |-> FALSE, clicked |-> FALSE, returned |-> "running"]

\* the except handler of navigate_to_conversation
NavigationFailed(navigation, screenshot_raises) ==
    [navigation EXCEPT !.raised = TRUE,
                       !.returned = ScreenshotThen("failed", screenshot_raises)]

\* the branch that finds no latest conversation
NotFound(navigation, screenshot_raises) ==
    [navigation EXCEPT !.resolved = TRUE,
                       !.returned = ScreenshotThen("failed", screenshot_raises)]

\* the latest conversation was found and is clicked
Opened(navigation, click_ok, screenshot_raises) ==
    IF click_ok
    THEN [navigation EXCEPT !.resolved = TRUE, !.found = TRUE,
                            !.clicked = TRUE, !.returned = "ok"]
    ELSE NavigationFailed([navigation EXCEPT !.resolved = TRUE,
                                             !.found = TRUE],
                          screenshot_raises)

\* NavigationManager.navigate_to_conversation
modules_navigate_to_conversation(conversation_url, goto_ok, latest_found, click_ok, screenshot_raises) ==
    LET direct == conversation_url # "None"
        went == [NewNavigation(conversation_url) EXCEPT
                    !.visited = IF direct THEN conversation_url ELSE Inbox]
    IN  IF ~goto_ok THEN NavigationFailed(went, screenshot_raises)
        ELSE IF direct THEN [went EXCEPT !.returned = "ok"]
        ELSE IF ~latest_found THEN NotFound(went, screenshot_raises)
        ELSE Opened(went, click_ok, screenshot_raises)

\* KleinanzeigenBot.navigate_to_conversation of bot_new.py: the inbox only
\* replaces a missing URL, the latest conversation is looked up either way
bot_new_navigate_to_conversation(conversation_url, goto_ok, latest_found, click_ok, screenshot_raises) ==
    LET went == [NewNavigation(conversation_url) EXCEPT
                    !.visited = IF conversation_url = "None"
                                THEN Inbox ELSE conversation_url]
    IN  IF ~goto_ok THEN NavigationFailed(went, screenshot_raises)
        ELSE IF ~latest_found THEN NotFound(went, screenshot_raises)
        ELSE Opened(went, click_ok, screenshot_raises)

\* step 4 of the workflow: navigate_to_conversation(conv_url)
navigate_to_conversation ==
    /\ Len(navigations) < MaxCalls
    /\ \E conversation_url \in ConversationUrls, goto_ok \in BOOLEAN,
          latest_found \in BOOLEAN, click_ok \in BOOLEAN,
          screenshot_raises \in BOOLEAN :
          navigations' = Append(navigations,
              IF navigator = "bot_new.py"
              THEN bot_new_navigate_to_conversation(conversation_url,
                       goto_ok, latest_found, click_ok, screenshot_raises)
              ELSE modules_navigate_to_conversation(conversation_url,
                       goto_ok, latest_found, click_ok, screenshot_raises))
    /\ UNCHANGED <<navigator, sessionVars, resolverVars, workflowVars,
                   logVars, pollVars, earlierVars, delayVars, typeVars, listingVars, retryVars>>

NavigationIdle ==
    /\ navigator = "none"
    /\ navigations = <<>>

----------------------------------------------------------------------------
(* The wait for the redirect in login, after the click on the submit       *)
(* button: "for i in range(20)" with a page.wait_for_timeout(500) in each  *)
(* pass                                                                    *)

PollChecks == 20

\* the values page.url can have while the login waits
PageUrls ==
    {"https://www.kleinanzeigen.de/m-einloggen.html",
     "https://www.kleinanzeigen.de/m-einloggen.html?error=1",
     "https://www.kleinanzeigen.de/",
     "chrome-error://chromewebdata/"}

\* "kleinanzeigen.de" in current_url and "einloggen" not in current_url.lower()
AwayFromLogin(url) == url = "https://www.kleinanzeigen.de/"

\* one pass of the loop: wait, read page.url, break if the page has moved
login_poll ==
    /\ poll_pc = "polling"
    /\ poll_i < PollChecks
    /\ \E url \in PageUrls :
          /\ current_url' = url
          /\ url_changed' = (url # initial_url \/ AwayFromLogin(url))
    /\ poll_i' = poll_i + 1
    /\ poll_pc' = IF url_changed' THEN "settling" ELSE "polling"
    /\ UNCHANGED <<initial_url, sessionVars, resolverVars, workflowVars,
                   logVars, navVars, earlierVars, delayVars, typeVars, listingVars, retryVars>>

\* range(20) is used up and no pass has broken out
login_poll_exhausted ==
    /\ poll_pc = "polling"
    /\ poll_i = PollChecks
    /\ poll_pc' = "done"
    /\ UNCHANGED <<poll_i, initial_url, current_url, url_changed, sessionVars,
                   resolverVars, workflowVars, logVars, navVars, earlierVars, delayVars, typeVars, listingVars, retryVars>>

\* "if url_changed: await page.wait_for_timeout(3000)"
login_settle ==
    /\ poll_pc = "settling"
    /\ poll_pc' = "done"
    /\ UNCHANGED <<poll_i, initial_url, current_url, url_changed, sessionVars,
                   resolverVars, workflowVars, logVars, navVars, earlierVars, delayVars, typeVars, listingVars, retryVars>>

PollIdle ==
    /\ poll_pc = "idle"
    /\ poll_i = 0
    /\ initial_url = "None"
    /\ current_url = "None"
    /\ url_changed = FALSE

----------------------------------------------------------------------------
(* HumanBehavior.delay; times are in milliseconds, and random.uniform is   *)
(* a choice among the values DrawStep apart in the range, both ends        *)
(* included                                                                *)

DrawStep == 25
MaxText == 3
MaxAttempts == 4

\* the delay fields of Settings: the defaults, and a configuration made
\* through the BOT_ environment variables
DefaultSettings == [delay_typing_min |-> 50, delay_typing_max |-> 150, delay_reading_min |-> 2000, delay_reading_max |-> 5000, delay_thinking_min |-> 3000, delay_thinking_max |-> 8000, delay_navigating_min |-> 1500, delay_navigating_max |-> 4000]

QuickSettings == [delay_typing_min |-> 100, delay_typing_max |-> 100, delay_reading_min |-> 500, delay_reading_max |-> 1000, delay_thinking_min |-> 0, delay_thinking_max |-> 2000, delay_navigating_min |-> 200, delay_navigating_max |-> 300]

SettingsChoices == {DefaultSettings, QuickSettings}

\* the action types callers pass; "scrolling" is not a key of delays
ActionTypes == {"typing", "reading", "thinking", "navigating", "default", "scrolling"}

\* the dict "delays" of delay
delays(settings) ==
    [typing |-> <<settings.delay_typing_min, settings.delay_typing_max>>,
     reading |-> <<settings.delay_reading_min, settings.delay_reading_max>>,
     thinking |-> <<settings.delay_thinking_min, settings.delay_thinking_max>>,
     navigating |-> <<settings.delay_navigating_min,
                      settings.delay_navigating_max>>,
     default |-> <<1000, 2000>>]

\* delays.get(action_type, delays["default"])
delays_get(settings, action_type) ==
    IF action_type \in DOMAIN delays(settings)
    THEN delays(settings)[action_type]
    ELSE delays(settings)["default"]

\* a longer pause that takes three times the upper end
LongerPauseTripled(range) == <<(range[1] * 3) \div 2, range[2] * 3>>

\* "min_s *= 1.5; max_s *= 2.0"
LongerPause(range) == <<(range[1] * 3) \div 2, range[2] * 2>>

\* random.uniform(a, b)
uniform(a, b) == {x \in a..b : (x - a) % DrawStep = 0} \cup {b}

Slept(range, widened, pause) == [delay_call EXCEPT !.state = "slept", !.range = range, !.widened = widened, !.slept = pause]

\* HumanBehavior.delay(action_type, fast_mode)
delay ==
    /\ delay_call.state = "called"
    /\ IF delay_call.fast_mode
       THEN \E pause \in uniform(300, 800) :
               delay_call' = Slept(<<300, 800>>, FALSE, pause)
       ELSE \E longer \in BOOLEAN :
               LET configured == delays_get(delay_call.settings,
                                            delay_call.action_type)
                   range == IF longer THEN LongerPause(configured)
                            ELSE configured
               IN  \E pause \in uniform(range[1], range[2]) :
                      delay_call' = Slept(range, longer, pause)
    /\ UNCHANGED <<sessionVars, resolverVars, workflowVars, logVars, navVars,
                   pollVars, earlierVars, typeVars, listingVars, retryVars>>

DelayIdle ==
    delay_call = [state |-> "idle", settings |-> DefaultSettings, action_type |-> "default", fast_mode |-> FALSE, range |-> <<0, 0>>, widened |-> FALSE, slept |-> 0]

----------------------------------------------------------------------------
(* HumanBehavior.human_type: the keys sent to the element and what the     *)
(* field holds; the field is empty when the call begins                    *)

Letters == {"a", "b"}

\* random.choice("abcdefghijklmnopqrstuvwxyz"): a letter the text does not
\* have, or one it has
WrongChars == {"x", "a"}

InputTexts == UNION {[1..n -> Letters] : n \in 0..MaxText}

Key(kind, char) == [kind |-> kind, char |-> char]

\* the field after Backspace
Backspaced(field) ==
    IF field = <<>> THEN field ELSE SubSeq(field, 1, Len(field) - 1)

\* the page calls of one pass that can raise
PassRaises == {"nothing", "type wrong_char", "press Backspace", "type char"}

\* one pass of "for i, char in enumerate(text)"; i counts from 1 here, so
\* "i > 0" reads c.i > 1
TypePass(c, typo, wrong_char, raises) ==
    LET injected == typo /\ c.i > 1
        c1 == IF injected /\ raises # "type wrong_char"
              THEN [c EXCEPT !.field = Append(@, wrong_char),
                             !.keys = Append(@, Key("wrong", wrong_char))]
              ELSE c
        c2 == IF injected
                 /\ raises \notin {"type wrong_char", "press Backspace"}
              THEN [c1 EXCEPT !.field = Backspaced(@),
                              !.keys = Append(@, Key("Backspace", ""))]
              ELSE c1
        raised == \/ injected
                     /\ raises \in {"type wrong_char", "press Backspace"}
                  \/ raises = "type char"
    IN  IF raised
        THEN [c2 EXCEPT !.pc = "except"]
        ELSE [c2 EXCEPT !.field = Append(@, c.text[c.i]),
                        !.keys = Append(@, Key("char", c.text[c.i])),
                        !.i = @ + 1]

\* "await element.click()" for the focus
human_type_click ==
    /\ type_call.pc = "click"
    /\ \E click_raises \in BOOLEAN :
          type_call' = [type_call EXCEPT
                           !.pc = IF click_raises THEN "except" ELSE "typing"]
    /\ UNCHANGED <<sessionVars, resolverVars, workflowVars, logVars, navVars,
                   pollVars, earlierVars, delayVars, listingVars, retryVars>>

\* a pass of the loop
human_type_pass ==
    /\ type_call.pc = "typing"
    /\ type_call.i <= Len(type_call.text)
    /\ \E typo \in BOOLEAN, wrong_char \in WrongChars, raises \in PassRaises :
          type_call' = TypePass(type_call, typo, wrong_char, raises)
    /\ UNCHANGED <<sessionVars, resolverVars, workflowVars, logVars, navVars,
                   pollVars, earlierVars, delayVars, listingVars, retryVars>>

\* the loop is over: the method returns
human_type_typed ==
    /\ type_call.pc = "typing"
    /\ type_call.i > Len(type_call.text)
    /\ type_call' = [type_call EXCEPT !.pc = "returned"]
    /\ UNCHANGED <<sessionVars, resolverVars, workflowVars, logVars, navVars,
                   pollVars, earlierVars, delayVars, listingVars, retryVars>>

\* the except clause: "try: await element.fill(text)" under a bare except
\* that passes
human_type_fallback ==
    /\ type_call.pc = "except"
    /\ \E fill_raises \in BOOLEAN :
          type_call' = [type_call EXCEPT
                           !.pc = "returned",
                           !.filled = ~fill_raises,
                           !.field = IF fill_raises THEN @ ELSE type_call.text]
    /\ UNCHANGED <<sessionVars, resolverVars, workflowVars, logVars, navVars,
                   pollVars, earlierVars, delayVars, listingVars, retryVars>>

NewTypeCall(text, at) == [text |-> text, pc |-> at, i |-> 1, field |-> <<>>, keys |-> <<>>, filled |-> FALSE]

TypeIdle == type_call = NewTypeCall(<<>>, "idle")

----------------------------------------------------------------------------
(* send_message up to the listing page: validate_url and page.goto.  A URL *)
(* is the sequence of its parts, so that "domain in url" is the test for a *)
(* run of parts                                                            *)

ListingUrls ==
    {<<>>,
     <<"https://", "www.", "kleinanzeigen.de", "/s-anzeige/1">>,
     <<"https://", "kleinanzeigen.de", "/s-anzeige/1">>,
     <<"kleinanzeigen.de", "/s-anzeige/1">>,
     <<"https://", "www.", "ebay.de", "/itm/1">>,
     <<"https://", "example.org", "/?next=", "kleinanzeigen.de">>,
     <<"http://", "m.", "kleinanzeigen.de", "/s-anzeige/1">>,
     <<"https://", "www.", "kleinanzeigen.com", "/s-anzeige/1">>,
     <<"/s-anzeige/1">>}

valid_domains == <<<<"kleinanzeigen.de">>, <<"www.", "kleinanzeigen.de">>>>

\* "domain in url"
Contains(url, domain) ==
    \E k \in 1..(Len(url) - Len(domain) + 1) :
        SubSeq(url, k, k + Len(domain) - 1) = domain

validate_url(url) ==
    IF url = <<>> THEN FALSE
    ELSE \E d \in 1..Len(valid_domains) : Contains(url, valid_domains[d])

Senders == {"bot.py", "bot_new.py", "core/bot.py"}

Returned(c, value) == [c EXCEPT !.pc = "returned", !.returned = value]

\* a send_message that goes to the listing without a look at the URL
send_message_unchecked ==
    /\ listing_call.pc = "called"
    /\ listing_call' =
          IF ~listing_call.page THEN Returned(listing_call, "failed")
          ELSE [listing_call EXCEPT !.pc = "goto"]
    /\ UNCHANGED <<sessionVars, resolverVars, workflowVars, logVars, navVars,
                   pollVars, earlierVars, delayVars, typeVars, retryVars>>

\* the call and what send_message of bot.py and bot_new.py does before its
\* try: "if not self.page" and "if not validate_url(listing_url)"; the
\* call that core/bot.py makes of MessageManager.send_message does not bind
send_message_called ==
    /\ listing_call.pc = "called"
    /\ listing_call' =
          IF listing_call.impl = "core/bot.py"
          THEN IF BindFails(send_message_required, send_message_accepted,
                            send_message_passed)
               THEN Returned(listing_call, "raised")
               ELSE [listing_call EXCEPT !.pc = "goto"]
          ELSE IF ~listing_call.page THEN Returned(listing_call, "failed")
          ELSE IF ~validate_url(listing_call.listing_url)
          THEN Returned(listing_call, "failed")
          ELSE [listing_call EXCEPT !.pc = "goto"]
    /\ UNCHANGED <<sessionVars, resolverVars, workflowVars, logVars, navVars,
                   pollVars, earlierVars, delayVars, typeVars, retryVars>>

\* "await self.page.goto(listing_url, ...)"
send_message_goto ==
    /\ listing_call.pc = "goto"
    /\ \E goto_ok \in BOOLEAN :
          listing_call' =
              LET gone == [listing_call EXCEPT
                              !.visited = Append(@, listing_call.listing_url)]
              IN  IF goto_ok THEN [gone EXCEPT !.pc = "message button"]
                  ELSE Returned(gone, "failed")
    /\ UNCHANGED <<sessionVars, resolverVars, workflowVars, logVars, navVars,
                   pollVars, earlierVars, delayVars, typeVars, retryVars>>

\* the message button, the textarea and the send button, one after the
\* other: each is looked up and used, and without it the call fails
send_message_element ==
    /\ listing_call.pc \in {"message button", "textarea", "send button"}
    /\ \E element_ok \in BOOLEAN :
          listing_call' =
              LET used == [listing_call EXCEPT !.interacted = TRUE] IN
              IF ~element_ok THEN Returned(used, "failed")
              ELSE IF listing_call.pc = "message button"
              THEN [used EXCEPT !.pc = "textarea"]
              ELSE IF listing_call.pc = "textarea"
              THEN [used EXCEPT !.pc = "send button"]
              ELSE Returned(used, "ok")
    /\ UNCHANGED <<sessionVars, resolverVars, workflowVars, logVars, navVars,
                   pollVars, earlierVars, delayVars, typeVars, retryVars>>

NewListingCall(impl, listing_url, page_set, at) == [impl |-> impl, listing_url |-> listing_url, page |-> page_set, pc |-> at, visited |-> <<>>, interacted |-> FALSE, returned |-> "None"]

ListingIdle == listing_call = NewListingCall("none", <<>>, FALSE, "idle")

----------------------------------------------------------------------------
(* retry_with_backoff of utils.py                                          *)

MAX_RETRIES == 3
RETRY_BACKOFF == 5

\* the values given for max_retries and backoff: the defaults and others
RetryCounts == 0..MaxAttempts

Backoffs == {1, 2, RETRY_BACKOFF}

\* what a call of func does: it returns a value, returns None, raises an
\* Exception, or raises what "except Exception" does not catch
FuncOutcomes == {"value", "None", "Exception", "BaseException"}

RECURSIVE Power2(_)
Power2(n) == IF n = 0 THEN 1 ELSE 2 * Power2(n - 1)

\* a wait that is already doubled after the first attempt
wait_time_doubled(backoff, attempt) == backoff * Power2(attempt + 1)

\* "wait_time = backoff * (2 ** attempt)"
wait_time(backoff, attempt) == backoff * Power2(attempt)

\* what attempt number "attempt" gave or raised
Outcome(kind, attempt) == [kind |-> kind, attempt |-> attempt]

NoException == Outcome("None", -1)

\* one pass of "for attempt in range(max_retries)"
retry_attempt ==
    /\ retry.pc = "loop"
    /\ retry.attempt < retry.max_retries
    /\ \E kind \in FuncOutcomes :
          LET made == Outcome(kind, retry.attempt)
              called == [retry EXCEPT !.calls = Append(@, made)]
          IN  retry' =
                  IF kind \in {"value", "None"}
                  THEN [called EXCEPT !.pc = "returned", !.result = made]
                  ELSE IF kind = "BaseException"
                  THEN [called EXCEPT !.pc = "raised", !.result = made]
                  ELSE [called EXCEPT
                           !.last_exception = made,
                           !.attempt = @ + 1,
                           !.waits = IF retry.attempt < retry.max_retries - 1
                                     THEN Append(@, wait_time(retry.backoff,
                                                              retry.attempt))
                                     ELSE @]
    /\ UNCHANGED <<sessionVars, resolverVars, workflowVars, logVars, navVars,
                   pollVars, earlierVars, delayVars, typeVars, listingVars>>

\* the loop is over: "raise last_exception"; raising None is a TypeError
retry_raise ==
    /\ retry.pc = "loop"
    /\ retry.attempt >= retry.max_retries
    /\ retry' = [retry EXCEPT
                     !.pc = "raised",
                     !.result = IF retry.last_exception = NoException
                                THEN Outcome("TypeError", -1)
                                ELSE retry.last_exception]
    /\ UNCHANGED <<sessionVars, resolverVars, workflowVars, logVars, navVars,
                   pollVars, earlierVars, delayVars, typeVars, listingVars>>

NewRetry(max_retries, backoff, at) == [max_retries |-> max_retries, backoff |-> backoff, pc |-> at, attempt |-> 0, calls |-> <<>>, waits |-> <<>>, last_exception |-> NoException, result |-> NoException]

RetryIdle == retry = NewRetry(MAX_RETRIES, RETRY_BACKOFF, "idle")

----------------------------------------------------------------------------
(* The specifications *)

SessionInit ==
    /\ cookie_file \in FoundFiles
    /\ now = StartTime
    /\ clock_steps = 0
    /\ call = NoCall
    /\ saved_from = <<>>
    /\ add_called = FALSE
    /\ context_cookies = <<>>
    /\ read_file = NoFile
    /\ writing = NotWriting
    /\ ResolverIdle
    /\ WorkflowIdle
    /\ LogIdle
    /\ NavigationIdle
    /\ PollIdle
    /\ NoEarlierCall
    /\ DelayIdle
    /\ TypeIdle
    /\ ListingIdle
    /\ RetryIdle

SessionNext ==
    \/ SessionManager_save_cookies
    \/ auth_save_cookies
    \/ SessionManager_load_cookies
    \/ auth_load_cookies
    \/ setup_browser_load_cookies
    \/ AdvanceClock

SpecSession == SessionInit /\ [][SessionNext]_vars

\* two runs of the bot on one cookies path: one saves, the other loads
InterleavedInit ==
    /\ SessionInit
    /\ cookie_file # BrokenFile

InterleavedNext ==
    \/ save_cookies_begin
    \/ save_cookies_open
    \/ save_cookies_dump
    \/ SessionManager_load_cookies
    \/ auth_load_cookies

SpecInterleaved == InterleavedInit /\ [][InterleavedNext]_vars

\* what the step that called the resolver makes of the value it got back
Handled(step) ==
    [state |-> "handled", element |-> found.element, index |-> found.index,
     step |-> step]

\* OfferManager.make_offer after "offer_btn = await self.selectors.find(...)":
\* with None it calls take_screenshot and returns False
make_offer_after_find ==
    /\ resolver = "find"
    /\ found.state = "returned"
    /\ \E screenshot_raises \in BOOLEAN :
          found' = Handled(IF found.element.is_element THEN "goes on"
                           ELSE ScreenshotThen("failed", screenshot_raises))
    /\ UNCHANGED <<resolver, selectors, page, idx, queried, sessionVars,
                   workflowVars, logVars, navVars, pollVars, earlierVars, delayVars, typeVars, listingVars, retryVars>>

\* safe_click of utils.py after
\* "element = await wait_for_selector_with_fallbacks(...)": with None it
\* logs and returns False
safe_click_after_fallbacks ==
    /\ resolver = "fallbacks"
    /\ found.state = "returned"
    /\ found' = Handled(IF found.element.is_element THEN "goes on"
                        ELSE "failed")
    /\ UNCHANGED <<resolver, selectors, page, idx, queried, sessionVars,
                   workflowVars, logVars, navVars, pollVars, earlierVars, delayVars, typeVars, listingVars, retryVars>>

\* a resolver with a cursor: the next call goes on behind the last match
find_again_behind_match ==
    /\ resolver = "find"
    /\ found.state = "returned"
    /\ Len(returned_earlier) + 1 < MaxCalls
    /\ returned_earlier' = Append(returned_earlier,
           [element |-> found.element, index |-> found.index])
    /\ found' = Running
    /\ idx' = found.index + 1
    /\ queried' = <<>>
    /\ UNCHANGED <<resolver, selectors, page, sessionVars, workflowVars,
                   logVars, navVars, pollVars, delayVars, typeVars, listingVars, retryVars>>

\* the step calls selectors.find again with the same name, the page being
\* as it was: find keeps nothing from one call to the next and starts at
\* the first candidate
find_again ==
    /\ resolver = "find"
    /\ found.state = "returned"
    /\ Len(returned_earlier) + 1 < MaxCalls
    /\ returned_earlier' = Append(returned_earlier,
           [element |-> found.element, index |-> found.index])
    /\ found' = Running
    /\ idx' = 1
    /\ queried' = <<>>
    /\ UNCHANGED <<resolver, selectors, page, sessionVars, workflowVars,
                   logVars, navVars, pollVars, delayVars, typeVars, listingVars, retryVars>>

ResolverInit ==
    /\ resolver \in {"find", "fallbacks"}
    /\ selectors \in CandidateLists
    /\ page \in [Candidates -> Behaviours]
    /\ idx = 1
    /\ queried = <<>>
    /\ found = Running
    /\ cookie_file = NoFile
    /\ now = StartTime
    /\ clock_steps = 0
    /\ call = NoCall
    /\ saved_from = <<>>
    /\ add_called = FALSE
    /\ context_cookies = <<>>
    /\ read_file = NoFile
    /\ writing = NotWriting
    /\ WorkflowIdle
    /\ LogIdle
    /\ NavigationIdle
    /\ PollIdle
    /\ NoEarlierCall
    /\ DelayIdle
    /\ TypeIdle
    /\ ListingIdle
    /\ RetryIdle

ResolverNext ==
    \/ find_try
    \/ find_not_found
    \/ fallbacks_try
    \/ fallbacks_not_found
    \/ make_offer_after_find
    \/ safe_click_after_fallbacks

SpecResolver == ResolverInit /\ [][ResolverNext]_vars

\* calls of a resolver made one after the other on the same page
RepeatedNext ==
    \/ ResolverNext
    \/ find_again

SpecRepeated == ResolverInit /\ [][RepeatedNext]_vars

LogInit ==
    /\ password \in [Runs -> Passwords]
    /\ debug \in BOOLEAN
    /\ log_file = [r \in Runs |-> <<>>]
    /\ log_pc = "start"
    /\ cookie_file = NoFile
    /\ now = StartTime
    /\ clock_steps = 0
    /\ call = NoCall
    /\ saved_from = <<>>
    /\ add_called = FALSE
    /\ context_cookies = <<>>
    /\ read_file = NoFile
    /\ writing = NotWriting
    /\ ResolverIdle
    /\ WorkflowIdle
    /\ NavigationIdle
    /\ PollIdle
    /\ NoEarlierCall
    /\ DelayIdle
    /\ TypeIdle
    /\ ListingIdle
    /\ RetryIdle

LogNext ==
    \/ setup_logging
    \/ login_fill_email
    \/ login_fill_password

SpecLog == LogInit /\ [][LogNext]_vars

NavigationInit ==
    /\ navigator \in Navigators
    /\ navigations = <<>>
    /\ cookie_file = NoFile
    /\ now = StartTime
    /\ clock_steps = 0
    /\ call = NoCall
    /\ saved_from = <<>>
    /\ add_called = FALSE
    /\ context_cookies = <<>>
    /\ read_file = NoFile
    /\ writing = NotWriting
    /\ ResolverIdle
    /\ WorkflowIdle
    /\ LogIdle
    /\ PollIdle
    /\ NoEarlierCall
    /\ DelayIdle
    /\ TypeIdle
    /\ ListingIdle
    /\ RetryIdle

NavigationNext == navigate_to_conversation

SpecNavigation == NavigationInit /\ [][NavigationNext]_vars

\* the session files a run can find: none, an unreadable one, one whose
\* only cookie has expired, one with a cookie that is still good
WorkflowFiles ==
    {NoFile, BrokenFile,
     JsonFile(<<FileCookie("sid", "now", StartTime)>>),
     JsonFile(<<FileCookie("sid", "far", StartTime)>>)}

Init ==
    /\ variant \in {"core", "legacy"}
    /\ entry \in {"api", "cli"}
    /\ entry = "cli" => variant = "legacy"
    /\ pc = IF entry = "cli" THEN "cli" ELSE "setup"
    /\ args \in Arguments
    /\ cookies_loaded = FALSE
    /\ result = NewResult
    /\ full_result = NewFullResult
    /\ history = <<>>
    /\ closed = 0
    /\ exit_status = NotExited
    /\ cookie_file \in WorkflowFiles
    /\ now = StartTime
    /\ clock_steps = 0
    /\ call = NoCall
    /\ saved_from = <<>>
    /\ add_called = FALSE
    /\ context_cookies = <<>>
    /\ read_file = NoFile
    /\ writing = NotWriting
    /\ ResolverIdle
    /\ LogIdle
    /\ NavigationIdle
    /\ PollIdle
    /\ NoEarlierCall
    /\ DelayIdle
    /\ TypeIdle
    /\ ListingIdle
    /\ RetryIdle

Next ==
    \/ send_and_offer
    \/ Setup
    \/ Authenticate
    \/ SendMessage
    \/ Navigate
    \/ MakeOffer
    \/ Finish

Spec == Init /\ [][Next]_vars

\* a run of execute_full_workflow of bot_new.py
NewInit ==
    /\ variant = "new"
    /\ entry = "api"
    /\ pc = NewSteps[1]
    /\ args \in Arguments
    /\ cookies_loaded = FALSE
    /\ result = NewResult
    /\ full_result = NewFullResult
    /\ history = <<>>
    /\ closed = 0
    /\ exit_status = NotExited
    /\ cookie_file = NoFile
    /\ now = StartTime
    /\ clock_steps = 0
    /\ call = NoCall
    /\ saved_from = <<>>
    /\ add_called = FALSE
    /\ context_cookies = <<>>
    /\ read_file = NoFile
    /\ writing = NotWriting
    /\ ResolverIdle
    /\ LogIdle
    /\ NavigationIdle
    /\ PollIdle
    /\ NoEarlierCall
    /\ DelayIdle
    /\ TypeIdle
    /\ ListingIdle
    /\ RetryIdle

\* the runs that keep a result with steps_completed and errors, next to
\* those of bot.py
ResultInit == Init \/ NewInit

ResultNext ==
    \/ Next
    \/ execute_full_workflow_step

SpecResult == ResultInit /\ [][ResultNext]_vars

\* the login is about to wait for the redirect
PollInit ==
    /\ poll_pc = "polling"
    /\ poll_i = 0
    /\ initial_url \in PageUrls
    /\ current_url = "None"
    /\ url_changed = FALSE
    /\ cookie_file = NoFile
    /\ now = StartTime
    /\ clock_steps = 0
    /\ call = NoCall
    /\ saved_from = <<>>
    /\ add_called = FALSE
    /\ context_cookies = <<>>
    /\ read_file = NoFile
    /\ writing = NotWriting
    /\ ResolverIdle
    /\ WorkflowIdle
    /\ LogIdle
    /\ NavigationIdle
    /\ NoEarlierCall
    /\ DelayIdle
    /\ TypeIdle
    /\ ListingIdle
    /\ RetryIdle

PollNext ==
    \/ login_poll
    \/ login_poll_exhausted
    \/ login_settle

\* everything of a run that loops: the workflow, a call of a resolver with
\* the step that made it, and the wait of the login; the event loop runs a
\* coroutine on whenever the page call it awaits has returned or timed out
\* the workflow starts without a session file or with a good one
TerminationFiles ==
    {NoFile, JsonFile(<<FileCookie("sid", "far", StartTime)>>)}

TerminationInit ==
    \/ Init /\ cookie_file \in TerminationFiles
    \/ ResolverInit
    \/ PollInit

TerminationNext ==
    \/ Next
    \/ ResolverNext
    \/ PollNext

SpecTermination ==
    TerminationInit /\ [][TerminationNext]_vars /\ WF_vars(TerminationNext)

DelayInit ==
    /\ delay_call \in [state : {"called"}, settings : SettingsChoices, action_type : ActionTypes, fast_mode : BOOLEAN, range : {<<0, 0>>}, widened : {FALSE}, slept : {0}]
    /\ cookie_file = NoFile
    /\ now = StartTime
    /\ clock_steps = 0
    /\ call = NoCall
    /\ saved_from = <<>>
    /\ add_called = FALSE
    /\ context_cookies = <<>>
    /\ read_file = NoFile
    /\ writing = NotWriting
    /\ ResolverIdle
    /\ WorkflowIdle
    /\ LogIdle
    /\ NavigationIdle
    /\ PollIdle
    /\ NoEarlierCall
    /\ TypeIdle
    /\ ListingIdle
    /\ RetryIdle

DelayNext == delay

SpecDelay == DelayInit /\ [][DelayNext]_vars

TypeInit ==
    /\ type_call \in {NewTypeCall(text, "click") : text \in InputTexts}
    /\ cookie_file = NoFile
    /\ now = StartTime
    /\ clock_steps = 0
    /\ call = NoCall
    /\ saved_from = <<>>
    /\ add_called = FALSE
    /\ context_cookies = <<>>
    /\ read_file = NoFile
    /\ writing = NotWriting
    /\ ResolverIdle
    /\ WorkflowIdle
    /\ LogIdle
    /\ NavigationIdle
    /\ PollIdle
    /\ NoEarlierCall
    /\ DelayIdle
    /\ ListingIdle
    /\ RetryIdle

TypeNext ==
    \/ human_type_click
    \/ human_type_pass
    \/ human_type_typed
    \/ human_type_fallback

SpecType == TypeInit /\ [][TypeNext]_vars

ListingInit ==
    /\ listing_call \in {NewListingCall(impl, url, page_set, "called") : impl \in Senders, url \in ListingUrls, page_set \in BOOLEAN}
    /\ cookie_file = NoFile
    /\ now = StartTime
    /\ clock_steps = 0
    /\ call = NoCall
    /\ saved_from = <<>>
    /\ add_called = FALSE
    /\ context_cookies = <<>>
    /\ read_file = NoFile
    /\ writing = NotWriting
    /\ ResolverIdle
    /\ WorkflowIdle
    /\ LogIdle
    /\ NavigationIdle
    /\ PollIdle
    /\ NoEarlierCall
    /\ DelayIdle
    /\ TypeIdle
    /\ RetryIdle

ListingNext ==
    \/ send_message_called
    \/ send_message_goto
    \/ send_message_element

SpecListing == ListingInit /\ [][ListingNext]_vars

RetryInit ==
    /\ retry \in {NewRetry(max_retries, backoff, "loop") : max_retries \in RetryCounts, backoff \in Backoffs}
    /\ cookie_file = NoFile
    /\ now = StartTime
    /\ clock_steps = 0
    /\ call = NoCall
    /\ saved_from = <<>>
    /\ add_called = FALSE
    /\ context_cookies = <<>>
    /\ read_file = NoFile
    /\ writing = NotWriting
    /\ ResolverIdle
    /\ WorkflowIdle
    /\ LogIdle
    /\ NavigationIdle
    /\ PollIdle
    /\ NoEarlierCall
    /\ DelayIdle
    /\ TypeIdle
    /\ ListingIdle

RetryNext ==
    \/ retry_attempt
    \/ retry_raise

SpecRetry == RetryInit /\ [][RetryNext]_vars

----------------------------------------------------------------------------
(* What the properties speak about *)

StepSet == {Steps[i] : i \in 1..Len(Steps)}

IsPrefix(s, t) == Len(s) <= Len(t) /\ s = SubSeq(t, 1, Len(s))

\* the steps invoked so far, in the order of their invocation
Invoked == [i \in 1..Len(history) |-> history[i].step]

\* the steps the result reports as completed: the list of the core, the
\* flags of bot.py
steps_completed ==
    IF variant = "core" THEN result.steps_completed
    ELSE SelectSeq(Steps, LAMBDA s : full_result[FlagOf(s)])

\* the position of the run in the order of the workflow
PcRank(p) ==
    IF p \in StepSet THEN StepIndex(p)
    ELSE IF p \in {"finally"} THEN Len(Steps) + 1
    ELSE IF p \in {"returned", "exited"} THEN Len(Steps) + 2
    ELSE 0

\* the run has returned and its last step did not succeed
RunFailed ==
    /\ pc = "returned"
    /\ history # <<>>
    /\ history[Len(history)].outcome # "ok"

FailedStep == history[Len(history)].step

\* the exit code that stands for the failure of a step
KindCode(step) ==
    CASE step = "setup"      -> EXIT_BROWSER_FAILED
      [] step = "auth"       -> EXIT_LOGIN_FAILED
      [] step = "message"    -> EXIT_MESSAGE_FAILED
      [] step = "navigation" -> EXIT_CONVERSATION_NOT_FOUND
      [] step = "offer"      -> EXIT_OFFER_FAILED

\* "within a tolerance of a few seconds"
Tolerance == 5 * Second

StoreLoaded ==
    /\ call.op = "load"
    /\ call.impl \in {"session", "auth"}
    /\ add_called

ExpiredInFile(cookie) == HasExpires(cookie) /\ cookie.expires <= call.at

NearExpiryInFile(cookie) ==
    /\ HasExpires(cookie)
    /\ cookie.expires > call.at
    /\ cookie.expires < call.at + expiring_soon

FarFutureInFile(cookie) ==
    HasExpires(cookie) /\ cookie.expires >= call.at + expiring_soon

FileCookieSet == {cookie_file.data[i] : i \in 1..Len(cookie_file.data)}

ContextCookieSet == {context_cookies[j] : j \in 1..Len(context_cookies)}

----------------------------------------------------------------------------
(* C1 *)

C1_OrderNow ==
    /\ IsPrefix(Invoked, Steps)
    /\ \A i \in 1..(Len(history) - 1) : history[i].outcome = "ok"
    /\ IsPrefix(steps_completed, Steps)
    /\ Len(steps_completed) <= Len(history)
    /\ pc \in StepSet => pc = Steps[Len(history) + 1]

C1_OrderStep ==
    /\ PcRank(pc') >= PcRank(pc)
    /\ IsPrefix(Invoked, Invoked')
    /\ IsPrefix(steps_completed, steps_completed')

\* C1: in every run of execute_workflow and of execute_full_workflow the
\* steps are invoked in the order setup, auth, message, navigation, offer,
\* a step is invoked only after every earlier step has returned success,
\* the run never moves back to an earlier position, and the completed steps
\* (the list of the core, the flags of bot.py) are at every point a prefix
\* of that order.
C1_StrictStepOrder == [](C1_OrderNow) /\ [][C1_OrderStep]_vars

\* a run of execute_full_workflow that went through all five steps
C1_AllStepsRun ==
    /\ variant = "legacy"
    /\ pc = "returned"
    /\ Invoked = Steps
    /\ steps_completed = Steps

----------------------------------------------------------------------------
(* C2 *)

\* C2: when a run has returned and step s was the first to fail, by
\* returning failure or by raising, then success is false, the completed
\* steps are exactly the steps before s, and the failure reported is the
\* one of s: the error text of s in the result of the core, the exit code
\* of s in the result of bot.py.
C2_FirstFailureReported ==
    RunFailed =>
        /\ steps_completed = SubSeq(Steps, 1, StepIndex(FailedStep) - 1)
        /\ IF variant = "core"
           THEN /\ ~result.success
                /\ result.errors = <<ErrorText(FailedStep)>>
           ELSE /\ full_result.exit_code # EXIT_SUCCESS
                /\ full_result.exit_code = KindCode(FailedStep)

----------------------------------------------------------------------------
(* C3 *)

\* c1..ck each time out or raise and c(k+1) matches
FirstMatchAt(k) ==
    /\ k + 1 <= Len(selectors)
    /\ \A i \in 1..k : page[selectors[i]] \in {"timeout", "error"}
    /\ page[selectors[k + 1]] = "element"

\* C3: for a candidate list in which c1..ck each time out or raise and
\* c(k+1) matches, both resolvers query the candidates in declared order,
\* once each, never one past c(k+1), and return the element c(k+1) matched.
C3_FirstMatchReturned ==
    \A k \in 0..MaxCandidates :
        FirstMatchAt(k) =>
            /\ IsPrefix(queried, SubSeq(selectors, 1, k + 1))
            /\ found.state = "returned" =>
                   /\ queried = SubSeq(selectors, 1, k + 1)
                   /\ found.element = ElementOf(selectors[k + 1])

\* a call that fell back at least once and left a candidate untried
C3_FellBack ==
    /\ found.state = "returned"
    /\ found.element.is_element
    /\ \E k \in 1..MaxCandidates : FirstMatchAt(k) /\ k + 1 < Len(selectors)
    /\ Len(queried) < Len(selectors)

----------------------------------------------------------------------------
(* C4 *)

\* C4: the exit code in the result of execute_full_workflow is 0 exactly
\* when all five flags are true, and a command line run that got past the
\* validation of its arguments exits with the code of a workflow run.
C4_ExitCodeOfTheRun ==
    /\ (variant = "legacy" /\ pc = "returned") =>
           (full_result.exit_code = EXIT_SUCCESS
               <=> \A s \in StepSet : full_result[FlagOf(s)])
    /\ (entry = "cli" /\ exit_status.exited
            /\ args.delivery \in valid_deliveries) =>
           /\ history # <<>>
           /\ closed > 0
           /\ exit_status.code = full_result.exit_code

----------------------------------------------------------------------------
(* C5 *)

\* C5: the exit code of a failed run names its failure kind and no other:
\* the code in the result is the code of the step that failed, and a
\* process that exits with the code of a failed browser setup has run the
\* workflow and failed in setup.
C5_CodeNamesOneKind ==
    /\ (variant = "legacy" /\ RunFailed) =>
           \A s \in StepSet :
               full_result.exit_code = KindCode(s) <=> s = FailedStep
    /\ (exit_status.exited /\ exit_status.code = EXIT_BROWSER_FAILED) =>
           RunFailed /\ FailedStep = "setup"

----------------------------------------------------------------------------
(* C6 *)

\* C6: after save_cookies returned True at time t, every cookie of the
\* session file has an expires of at least t + 30 days, give or take a few
\* seconds, whatever the live cookies were.
C6_SavedThirtyDays ==
    (call.op = "save" /\ call.returned) =>
        \A c \in FileCookieSet :
            /\ HasExpires(c)
            /\ c.expires >= call.at + expiration_extension - Tolerance

----------------------------------------------------------------------------
(* C7 *)

\* C7: when load_cookies (SessionManager.load_cookies, load_cookies of
\* auth.py) applies cookies to the context at time t, no cookie of the file
\* with expires <= t is among them, every cookie of the file that expires
\* in less than 7 days is among them with expires reset to t + 30 days (t
\* counted in whole seconds), and every cookie that expires later is among
\* them as it is in the file.
C7_LoadSortsTheMix ==
    StoreLoaded =>
        \A c \in FileCookieSet :
            /\ ExpiredInFile(c) =>
                   ~\E d \in ContextCookieSet : d.name = c.name
            /\ NearExpiryInFile(c) =>
                   \E d \in ContextCookieSet :
                       /\ d.name = c.name
                       /\ d.value = c.value
                       /\ d.expires <= call.at + expiration_extension
                       /\ d.expires > call.at + expiration_extension - Second
            /\ FarFutureInFile(c) => c \in ContextCookieSet

\* a load of a file that holds an expired, a near-expiry and a far-future
\* cookie
C7_MixLoaded ==
    /\ StoreLoaded
    /\ call.returned
    /\ \E c \in FileCookieSet : ExpiredInFile(c)
    /\ \E c \in FileCookieSet : NearExpiryInFile(c)
    /\ \E c \in FileCookieSet : FarFutureInFile(c)

----------------------------------------------------------------------------
(* C8 *)

\* C8: whichever code hydrates the context from the session file
\* (SessionManager.load_cookies, load_cookies of auth.py, setup_browser of
\* bot_new.py), every cookie it passes to context.add_cookies expires after
\* the time of loading, and no cookie of the file that has expired is among
\* them under a new expiry.
C8_NoExpiredCookieApplied ==
    (call.op = "load" /\ add_called) =>
        /\ \A d \in ContextCookieSet : HasExpires(d) => d.expires > call.at
        /\ \A c \in FileCookieSet :
               ExpiredInFile(c) =>
                   ~\E d \in ContextCookieSet : d.name = c.name

----------------------------------------------------------------------------
(* C9 *)

\* C9: a load_cookies that follows a successful save_cookies of a
\* non-empty live cookie set, with nothing failing in the load, applies to
\* the context exactly the cookies of that set, each under its name and
\* value and with an expires at least 30 days out.
C9_RoundTrip ==
    (call.op = "load" /\ call.impl \in {"session", "auth"}
        /\ ~call.fault /\ saved_from # <<>>) =>
        /\ add_called
        /\ Len(context_cookies) = Len(saved_from)
        /\ \A i \in 1..Len(saved_from) :
               /\ i <= Len(context_cookies)
               /\ context_cookies[i].name = saved_from[i].name
               /\ context_cookies[i].value = saved_from[i].value
               /\ HasExpires(context_cookies[i])
               /\ context_cookies[i].expires
                      >= call.at + expiration_extension - Tolerance

----------------------------------------------------------------------------
(* C10 *)

\* C10: a save_cookies that returns False, wherever it failed, leaves the
\* session file with exactly the content it had before the call.
C10_FailedSaveKeepsFile ==
    [][(call'.op = "save" /\ ~call'.returned /\ call'.fault)
           => cookie_file' = cookie_file]_vars

----------------------------------------------------------------------------
(* C11 *)

\* C11: a load_cookies that runs while a save_cookies on the same path is
\* between its first and its last statement finds at the path either the
\* complete content from before the save or the complete content the save
\* writes, never an empty or partly written file.
C11_LoadReadsWholeFile ==
    (call.op = "load" /\ ~call.fault /\ writing.pc # "idle") =>
        read_file \in {writing.previous, JsonFile(writing.cookies)}

----------------------------------------------------------------------------
(* C12 *)

\* C12: a save_cookies that reads an empty live cookie set returns False,
\* leaves the session file (or its absence) exactly as it was and does not
\* get to create the directory.
C12_EmptySetWritesNothing ==
    [][(call'.op = "save" /\ call'.live = 0) =>
           /\ ~call'.returned
           /\ ~call'.mkdir
           /\ cookie_file' = cookie_file]_vars

\* a save of an empty live set over an existing session file with cookies
C12_EmptySetOverFile ==
    /\ call.op = "save"
    /\ call.live = 0
    /\ ~call.fault
    /\ cookie_file.kind = "json"
    /\ cookie_file.data # <<>>

----------------------------------------------------------------------------
(* C13 *)

ReadCookieSet == {read_file.data[i] : i \in 1..Len(read_file.data)}

\* what the load found yields no valid cookie: no file, a file that cannot
\* be read or parsed, an empty list, or expired cookies only
NothingValidRead ==
    \/ ~read_file.exists
    \/ read_file.kind # "json"
    \/ read_file.data = <<>>
    \/ \A c \in ReadCookieSet : HasExpires(c) /\ c.expires <= call.at

\* C13: load_cookies (SessionManager.load_cookies, load_cookies of
\* auth.py) returns False and passes nothing to the browser context
\* whenever the session file does not exist, cannot be read or parsed, is
\* an empty list or holds expired cookies only.
C13_NothingValidNothingLoaded ==
    (call.op = "load" /\ call.impl \in {"session", "auth"}
        /\ NothingValidRead) =>
        /\ ~call.returned
        /\ ~add_called
        /\ context_cookies = <<>>

\* a load of a readable file whose cookies have all expired
C13_OnlyExpiredRead ==
    /\ call.op = "load"
    /\ call.impl = "auth"
    /\ ~call.fault
    /\ read_file.kind = "json"
    /\ Len(read_file.data) > 1
    /\ \A c \in ReadCookieSet : HasExpires(c) /\ c.expires <= call.at
    /\ ~call.returned

----------------------------------------------------------------------------
(* C14 *)

\* C14: a cookie of the session file that has no expires field is never
\* among the cookies load_cookies passes to the browser context.
C14_NoExpiresDropped ==
    (call.op = "load" /\ call.impl \in {"session", "auth"}) =>
        \A c \in ReadCookieSet :
            ~HasExpires(c) => ~\E d \in ContextCookieSet : d.name = c.name

----------------------------------------------------------------------------
(* C15 *)

\* C15: a failure of the session store never ends the run. When
\* load_cookies fails in setup, setup still succeeds; when it fails before
\* authenticate, authenticate performs the login and ends as the login
\* ends; when save_cookies fails, the step that called it still succeeds.
C15_StoreFailureNotFatal ==
    \A i \in 1..Len(history) :
        LET e == history[i]
        IN /\ (e.step = "setup" /\ e.note.load = "failed") => e.outcome = "ok"
           /\ (e.step = "auth" /\ e.note.load = "failed") =>
                  /\ e.note.login # "none"
                  /\ e.outcome = e.note.login
           /\ e.note.save = "failed" => e.outcome = "ok"

\* a run of bot.py whose load and whose save both failed and which still
\* sent its offer
C15_RunSurvivesTheStore ==
    /\ pc = "returned"
    /\ variant = "legacy"
    /\ Len(history) = Len(Steps)
    /\ history[2].note.load = "failed"
    /\ history[2].note.login = "ok"
    /\ history[2].note.save = "failed"
    /\ full_result.offer_sent
    /\ full_result.exit_code = EXIT_SUCCESS

----------------------------------------------------------------------------
(* C16 *)

\* C16: in the core, when setup loaded valid cookies and force_fresh is
\* false, authenticate returns True and no login is performed; otherwise
\* the login is performed and authenticate ends as the login ends. A login
\* is only ever performed after setup has called load_cookies.
C16_SessionDecidesLogin ==
    (variant = "core" /\ Len(history) >= 2) =>
        LET hydration == history[1]
            e == history[2]
        IN /\ e.step = "auth"
           /\ IF hydration.note.load = "ok" /\ ~args.force_fresh_login
              THEN e.outcome = "ok" /\ e.note.login = "none"
              ELSE e.note.login # "none" /\ e.outcome = e.note.login
           /\ e.note.login # "none" =>
                  hydration.step = "setup" /\ hydration.note.load # "none"

\* a run of the core that took the stored session and did not log in, and
\* one step later
C16_SessionReused ==
    /\ variant = "core"
    /\ Len(history) >= 3
    /\ history[1].note.load = "ok"
    /\ ~args.force_fresh_login
    /\ history[2].outcome = "ok"
    /\ history[2].note.login = "none"

----------------------------------------------------------------------------
(* C17 *)

\* C17: in a run that has returned, if authenticate succeeded by performing
\* the login, save_cookies was called in that run, whatever the later
\* steps did.
C17_LoginSuccessSaves ==
    pc = "returned" =>
        \A i \in 1..Len(history) :
            (history[i].step = "auth" /\ history[i].note.login = "ok"
                 /\ history[i].outcome = "ok") =>
                \E j \in 1..Len(history) : history[j].note.save # "none"

----------------------------------------------------------------------------
(* C18 *)

\* C18: a login returns True only if a success indicator was there
\* (login=success in the URL or a visible logged-in element); without one
\* it returns False and authenticate fails. For both logins.
C18_SuccessNeedsIndicator ==
    \A i \in 1..Len(history) :
        LET e == history[i]
        IN (e.step = "auth" /\ e.note.login # "none") =>
               /\ e.note.login = "ok" => e.note.verified
               /\ ~e.note.verified =>
                      e.note.login = "failed" /\ e.outcome = "failed"

----------------------------------------------------------------------------
(* C19 *)

\* the result classifies the run as an authentication failure
AuthenticationFailureReported ==
    IF variant = "core" THEN result.errors = <<ErrorText("auth")>>
    ELSE full_result.exit_code = EXIT_LOGIN_FAILED

\* C19: when a CAPTCHA indicator resolves during the login, login returns
\* False, authenticate is the last step invoked, and the run returns with
\* the authentication failure reported and exactly setup completed.
C19_CaptchaEndsTheRun ==
    \A i \in 1..Len(history) :
        (history[i].step = "auth" /\ history[i].note.captcha) =>
            /\ history[i].note.login = "failed"
            /\ history[i].outcome = "failed"
            /\ Invoked = <<"setup", "auth">>
            /\ pc = "returned" =>
                   /\ steps_completed = <<"setup">>
                   /\ AuthenticationFailureReported

----------------------------------------------------------------------------
(* C20 *)

\* C20: make_offer succeeds exactly when the offer button, the price input
\* and the submit control work, whatever the delivery select, the shipping
\* cost input and the note textarea do, and it gets to the submit control
\* whenever the offer button and the price input worked. A run with
\* delivery = shipping and a shipping cost in which setup and authenticate
\* succeeded and no step returned False completes every step, also when
\* the delivery select cannot be found.
C20_OptionalControlsNeverDecide ==
    /\ \A i \in 1..Len(history) :
           LET e == history[i]
           IN e.step = "offer" =>
                  /\ e.outcome = "ok" <=> e.note.critical
                  /\ e.outcome # "raised"
                  /\ e.note.priced => e.note.submit
    /\ (pc = "returned" /\ Len(history) >= 2
          /\ args.delivery = "shipping" /\ args.shipping_cost = "4.99"
          /\ history[1].outcome = "ok" /\ history[2].outcome = "ok"
          /\ \A i \in 1..Len(history) : history[i].outcome # "failed") =>
           steps_completed = Steps

----------------------------------------------------------------------------
(* C21 *)

\* the result reports the offer as sent
OfferReportedSent ==
    IF variant = "core" THEN "offer" \in {result.steps_completed[k] :
                                              k \in 1..Len(result.steps_completed)}
    ELSE full_result.offer_sent

\* C21: when the offer button, the price input or the submit control could
\* not be found and used, make_offer returns False and the offer is not
\* reported as sent; make_offer returns True only after the price was
\* filled and a submit control that was found was clicked.
C21_CriticalControlsDecide ==
    \A i \in 1..Len(history) :
        LET e == history[i]
        IN e.step = "offer" =>
               /\ ~e.note.critical => e.outcome = "failed" /\ ~OfferReportedSent
               /\ e.outcome = "ok" => e.note.priced /\ e.note.critical

----------------------------------------------------------------------------
(* C22 *)

\* C22: in a run with delivery = pickup a shipping cost that was supplied
\* is gone when make_offer is about to be invoked, and no make_offer of
\* such a run looks up or fills the shipping cost input.
C22_PickupSendsNoShippingCost ==
    args.delivery = "pickup" =>
        /\ pc = "offer" => args.shipping_cost = "None"
        /\ \A i \in 1..Len(history) : ~history[i].note.shipping_tried

----------------------------------------------------------------------------
(* C23 *)

\* C23: a run started through cli.py with delivery = pickup and no
\* shipping cost, in which no step that was invoked failed, ends with all
\* five steps completed and the process exits with code 0.
C23_CooperativeRunSucceeds ==
    (/\ entry = "cli"
     /\ pc \in {"returned", "exited"}
     /\ args.delivery = "pickup"
     /\ args.shipping_cost = "None"
     /\ \A i \in 1..Len(history) : history[i].outcome = "ok") =>
        /\ steps_completed = Steps
        /\ exit_status = Exited(EXIT_SUCCESS)

----------------------------------------------------------------------------
(* C24 *)

\* C24: in every run that has returned after a step did not succeed,
\* take_screenshot was called on the way out of that step.
C24_FailureLeavesScreenshot ==
    RunFailed => history[Len(history)].note.screenshot

----------------------------------------------------------------------------
(* C25 *)

\* C25: whatever the candidate list and whatever the page does for each
\* candidate, the resolver returns (an element or None, never an
\* exception), it returns None when no candidate matched, and the step that
\* called it turns a None into its own failure: it returns False and does
\* not raise.
C25_NotFoundStaysInTheStep ==
    /\ found.state \in {"running", "returned", "handled"}
    /\ (found.state # "running" /\ ~found.element.is_element) =>
           /\ found.element = None
           /\ \A i \in 1..Len(selectors) : ~Matched(page[selectors[i]])
    /\ (found.state = "handled" /\ ~found.element.is_element) =>
           found.step = "failed"

----------------------------------------------------------------------------
(* C26 *)

\* C26: two runs that differ only in the password and see the same page
\* have written the same lines to the log file.
C26_LogIndependentOfPassword == log_file[1] = log_file[2]

----------------------------------------------------------------------------
(* C27 *)

\* C27: in one run no step is invoked twice, and the step that did not
\* succeed is the last step invoked.
C27_NoStepRunsTwice ==
    /\ \A i, j \in 1..Len(history) :
           history[i].step = history[j].step => i = j
    /\ \A i \in 1..Len(history) :
           history[i].outcome # "ok" => i = Len(history)

\* a run that returned after its third step failed, with three steps
\* invoked
C27_FailedStepWasLast ==
    /\ pc = "returned"
    /\ Invoked = <<"setup", "auth", "message">>
    /\ history[3].outcome = "failed"
    /\ closed = 1

----------------------------------------------------------------------------
(* C28 *)

\* the two cookies agree in every field but expires
SameButExpires(c, d) ==
    /\ DOMAIN c \ {"expires"} = DOMAIN d \ {"expires"}
    /\ \A f \in DOMAIN c \ {"expires"} : c[f] = d[f]

----------------------------------------------------------------------------
(* C29 *)

\* C29: an element a resolver returns is visible and enabled, and the
\* candidates before it were passed over.
C29_ReturnedElementUsable ==
    (found.state # "running" /\ found.element.is_element) =>
        /\ page[found.element.selector] = "element"
        /\ found.element.selector = selectors[found.index]
        /\ \A i \in 1..(found.index - 1) : page[selectors[i]] # "element"

----------------------------------------------------------------------------
(* C30 *)
(* Navigate: with a conversation URL captured by SendMessage the call goes *)
(* to that URL and succeeds without looking up LATEST_CONVERSATION;        *)
(* without one it opens the inbox, looks up LATEST_CONVERSATION and clicks *)
(* it; it returns failure exactly when the navigation raises or, on the    *)
(* inbox path, no candidate of LATEST_CONVERSATION resolves.               *)
C30_DirectOrInbox ==
    \A i \in 1..Len(navigations) :
        LET n == navigations[i]
            direct == n.conversation_url # "None"
        IN  /\ direct => /\ n.visited = n.conversation_url
                         /\ ~n.resolved
                         /\ ~n.raised => n.returned = "ok"
            /\ ~direct => /\ n.visited = Inbox
                          /\ n.returned = "ok" => n.resolved /\ n.clicked
            /\ n.returned = "failed"
                   <=> (n.raised \/ (~direct /\ n.resolved /\ ~n.found))

----------------------------------------------------------------------------
(* C31 *)
(* Every run terminates: with every page call returning or timing out the  *)
(* workflow reaches a returned result or an exit, a resolver call returns  *)
(* and its step handles the value, and the wait of the login is over after *)
(* at most PollChecks passes; a resolver call tries each candidate at most *)
(* once and in order, so it makes at most Len(selectors) attempts, and the *)
(* workflow runs at most the five steps.                                   *)
Terminated ==
    \/ pc \in {"returned", "exited"}
    \/ found.state = "handled"
    \/ poll_pc = "done"

AttemptsBounded ==
    /\ Len(queried) <= Len(selectors)
    /\ \A k \in 1..Len(queried) : queried[k] = selectors[k]
    /\ poll_i <= PollChecks
    /\ Len(history) <= Len(Steps)

C31_EveryRunTerminates == []AttemptsBounded /\ <>Terminated

\* a call that tried every candidate of the longest list in vain, and whose
\* step has dealt with the None
C31_AllCandidatesTried ==
    /\ found.state = "handled"
    /\ ~found.element.is_element
    /\ Len(selectors) = MaxCandidates
    /\ Len(queried) = MaxCandidates

----------------------------------------------------------------------------
----------------------------------------------------------------------------
(* C33 *)
(* HumanBehavior.delay stays in its category's range: in normal mode the   *)
(* pause of a category configured as [min, max] lies in [min, max] or,     *)
(* with the occasional longer pause, in [1.5*min, 2*max], so never below   *)
(* min and never above 2*max; an action type that is no category has the   *)
(* default range [1 s, 2 s]; in fast mode the pause lies in [0.3 s, 0.8 s] *)
(* for every category and is never a longer pause.                         *)
ConfiguredMin(c) ==
    CASE c.action_type = "typing" -> c.settings.delay_typing_min
      [] c.action_type = "reading" -> c.settings.delay_reading_min
      [] c.action_type = "thinking" -> c.settings.delay_thinking_min
      [] c.action_type = "navigating" -> c.settings.delay_navigating_min
      [] OTHER -> 1000

ConfiguredMax(c) ==
    CASE c.action_type = "typing" -> c.settings.delay_typing_max
      [] c.action_type = "reading" -> c.settings.delay_reading_max
      [] c.action_type = "thinking" -> c.settings.delay_thinking_max
      [] c.action_type = "navigating" -> c.settings.delay_navigating_max
      [] OTHER -> 2000

C33_DelayInRange ==
    delay_call.state = "slept" =>
        LET c == delay_call
            min_s == ConfiguredMin(c)
            max_s == ConfiguredMax(c)
        IN  IF c.fast_mode
            THEN 300 <= c.slept /\ c.slept <= 800 /\ ~c.widened
            ELSE /\ ~c.widened => min_s <= c.slept /\ c.slept <= max_s
                 /\ c.widened => /\ 3 * min_s <= 2 * c.slept
                                 /\ c.slept <= 2 * max_s
                 /\ min_s <= c.slept
                 /\ c.slept <= 2 * max_s

\* a longer pause at its upper end, for an action type that is no category
C33_LongestDefaultPause ==
    /\ delay_call.state = "slept"
    /\ delay_call.action_type = "scrolling"
    /\ ~delay_call.fast_mode
    /\ delay_call.widened
    /\ delay_call.slept = 4000

----------------------------------------------------------------------------
(* C34 *)
(* human_type leaves exactly the requested text in the field: a wrong      *)
(* character is never sent before the first character and is followed at   *)
(* once by a Backspace before the next character of the text is sent, the  *)
(* characters of the text are sent once each and in order, and when typing *)
(* raises part-way the fallback fills in the whole text; so on return the  *)
(* field holds the text.                                                   *)
IntendedKeys == SelectSeq(type_call.keys, LAMBDA k : k.kind = "char")

C34_FieldHoldsText ==
    LET c == type_call IN
    /\ \A k \in 1..Len(c.keys) :
          c.keys[k].kind = "wrong" =>
              /\ k > 1
              /\ (k < Len(c.keys) => c.keys[k + 1].kind = "Backspace")
    /\ \A k \in 1..Len(IntendedKeys) : IntendedKeys[k].char = c.text[k]
    /\ c.pc = "returned" =>
          /\ c.field = c.text
          /\ ~c.filled => Len(IntendedKeys) = Len(c.text)

----------------------------------------------------------------------------
(* C35 *)
(* The browser is released on every terminal outcome: when                 *)
(* execute_workflow or execute_full_workflow has returned, by success, by  *)
(* a failed step at any position or by an exception raised inside a step,  *)
(* close has been invoked exactly once; it is invoked after the last step, *)
(* never while a step is still to run.                                     *)
C35_ClosedOnceOnReturn ==
    /\ pc = "returned" => closed = 1
    /\ pc # "returned" => closed = 0

\* a run that has returned after a step raised
C35_ReturnedAfterException ==
    /\ pc = "returned"
    /\ history # <<>>
    /\ history[Len(history)].outcome = "raised"
    /\ closed = 1

----------------------------------------------------------------------------
(* C36 *)
(* Result consistency: in the result a run of execute_workflow (or of      *)
(* execute_full_workflow of bot_new.py) returns, success is true exactly   *)
(* when steps_completed lists the five steps of the workflow in order;     *)
(* with success the errors list is empty, and without it the list holds    *)
(* exactly one entry, which names the first failure: the text of the step  *)
(* that returned failure, or the text of the exception.                    *)
KeepsResult == variant \in {"core", "new"}

AllSteps == IF variant = "new" THEN NewSteps ELSE Steps

FailureText(e) ==
    IF e.outcome = "raised" THEN "str(e)"
    ELSE IF variant = "new" THEN NewErrorText(e.step) ELSE ErrorText(e.step)

C36_ResultConsistent ==
    (KeepsResult /\ pc = "returned") =>
        /\ result.success <=> result.steps_completed = AllSteps
        /\ result.success => result.errors = <<>>
        /\ ~result.success =>
              /\ Len(result.errors) = 1
              /\ history[Len(history)].outcome # "ok"
              /\ result.errors[1] = FailureText(history[Len(history)])
              /\ \A k \in 1..(Len(history) - 1) : history[k].outcome = "ok"

\* a run that returned success with its five steps completed
C36_SuccessWithFiveSteps ==
    /\ KeepsResult
    /\ pc = "returned"
    /\ result.success
    /\ Len(result.steps_completed) = 5
    /\ closed = 1

----------------------------------------------------------------------------
(* C37 *)
(* load_cookies never writes: what it filters out and the expiry it        *)
(* extends concern only the cookies it hands to the browser context; the   *)
(* session file, or its absence, is after a load_cookies what it was       *)
(* before, whether the call succeeds or fails, and wherever it fails.      *)
C37_LoadLeavesFile ==
    [][call'.op = "load" => cookie_file' = cookie_file]_vars

\* a load that dropped or restamped a cookie on its way to the context
\* while the file still holds the cookie as it was
C37_ContextDiffersFromFile ==
    /\ call.op = "load"
    /\ call.returned
    /\ cookie_file.kind = "json"
    /\ ContextCookieSet # {}
    /\ ContextCookieSet \ FileCookieSet # {}
    /\ FileCookieSet \ ContextCookieSet # {}

----------------------------------------------------------------------------
(* C38 *)
(* The bot never navigates to a listing URL that fails validate_url: when  *)
(* the URL is empty or has no kleinanzeigen.de domain in it, send_message  *)
(* returns failure before any page navigation and before it touches an     *)
(* element; so every listing navigation goes to the URL of the call, and   *)
(* that URL has the domain in it.                                          *)
HasTheDomain(url) == \E k \in 1..Len(url) : url[k] = "kleinanzeigen.de"

C38_OnlyValidatedListings ==
    LET c == listing_call
        refused == c.listing_url = <<>> \/ ~HasTheDomain(c.listing_url)
    IN  /\ \A k \in 1..Len(c.visited) :
              /\ c.visited[k] = c.listing_url
              /\ ~refused
        /\ refused =>
              /\ c.pc \in {"called", "returned"}
              /\ c.visited = <<>>
              /\ ~c.interacted
              /\ c.pc = "returned" => c.returned # "ok"

\* bot.py has refused a URL of another site without going anywhere
C38_ForeignUrlRefused ==
    /\ listing_call.impl = "bot.py"
    /\ listing_call.page
    /\ listing_call.listing_url = <<"https://", "www.", "ebay.de", "/itm/1">>
    /\ listing_call.pc = "returned"
    /\ listing_call.returned = "failed"
    /\ listing_call.visited = <<>>

----------------------------------------------------------------------------
(* C39 *)
(* retry_with_backoff invokes func at most max_retries times, stops at the *)
(* first attempt that does not raise and returns the result of that        *)
(* attempt, waits backoff * 2^attempt seconds between consecutive attempts *)
(* (attempt counted from 0) and does not wait after the last one, and when *)
(* all max_retries attempts have raised it raises the exception of the     *)
(* last attempt again.                                                     *)
Caught(k) == retry.calls[k].kind = "Exception"

C39_RetriesWithBackoff ==
    LET r == retry
        n == Len(r.calls)
    IN  /\ n <= r.max_retries
        /\ \A k \in 1..n : r.calls[k].attempt = k - 1
        /\ \A k \in 1..(n - 1) : Caught(k)
        /\ \A k \in 1..Len(r.waits) :
              /\ r.waits[k] = r.backoff * (2 ^ (k - 1))
              /\ k < r.max_retries
              /\ k <= n /\ Caught(k)
        /\ \A k \in 1..n : (Caught(k) /\ k < r.max_retries) => k <= Len(r.waits)
        /\ r.pc = "returned" =>
              /\ n >= 1
              /\ r.calls[n].kind \in {"value", "None"}
              /\ r.result = r.calls[n]
        /\ (r.pc = "raised" /\ n >= 1) => r.result = r.calls[n]
        /\ (n = r.max_retries /\ n >= 1 /\ Caught(n)) =>
              (r.pc = "loop" \/ (r.pc = "raised" /\ r.result = r.calls[n]))

\* the default three attempts all raised: two waits, and the third
\* exception comes out
C39_ThreeAttemptsRaised ==
    /\ retry.max_retries = MAX_RETRIES
    /\ retry.backoff = RETRY_BACKOFF
    /\ retry.pc = "raised"
    /\ Len(retry.calls) = 3
    /\ retry.waits = <<5, 10>>
    /\ retry.result = Outcome("Exception", 2)


====
